---------------------------- MODULE Spec2Model ----------------------------
(***************************************************************************)
(* mnote: the lock manager (src/src/index.ts, LockManager), the sync       *)
(* orchestrator (src/src/commands/sync.ts), the daemon loop                *)
(* (src/unnamed/part_003, runDaemon) and the note store with its search    *)
(* index (src/unnamed/part_007).                                           *)
(*                                                                         *)
(* Time is in milliseconds, as Date.now() gives it.  Every await of the    *)
(* code is a separate step, so the steps of different actors interleave.   *)
(***************************************************************************)
EXTENDS Integers, Sequences, FiniteSets, TLC

(***************************************************************************)
(* Program constants                                                       *)
(***************************************************************************)
\* index.ts:583  age > 10 * 60 * 1000
StaleMs == 10 * 60 * 1000
\* index.ts:556  setTimeout(r, 500)
PollMs == 500
\* index.ts:540  options.timeoutMs ?? 5000
DefaultTimeoutMs == 5000
\* sync.ts:15  syncNotes waits up to 5000 ms
SyncNotesTimeoutMs == 5000
\* sync.ts:39  autoSync waits up to 3000 ms
AutoSyncTimeoutMs == 3000

(***************************************************************************)
(* Bounds of the model                                                     *)
(***************************************************************************)
\* number of coarse clock steps (of TickMs each) in the lock specifications
MaxTicks == 3
\* number of acquire calls one actor makes in SpecLock
MaxCalls == 2
\* number of poll-sized clock steps in SpecWait
MaxPolls == 5

\* one coarse clock step: half the staleness threshold
TickMs == StaleMs \div 2

(***************************************************************************)
(* Actors are LockManager instances; each runs in a process (pidOf).       *)
(* DeadPid is the pid in a lock file left by a process that is gone.       *)
(***************************************************************************)
Actors == {"a1", "a2"}
Pids == {1, 2}
DeadPid == 9
AllPids == Pids \cup {DeadPid}

NoFile == [kind |-> "none"]
\* no call of the store recorded yet
NoRet == [op |-> "none"]
\* config.ts:27-31  loadConfig() without a config file: {}
EmptyConfig == [p \in {} |-> "true"]
\* the file as exclusive create leaves it before the token is written
EmptyFile(a) == [kind |-> "empty", by |-> a]
\* `${process.pid}|${Date.now()}`
Token(a, p, t) == [kind |-> "token", by |-> a, pid |-> p, ts |-> t]
NaN == -1

VARIABLES
    lockFile,   \* <root>/.mnote-sync.lock
    now,        \* Date.now()
    alive,      \* which pids are running processes
    pidOf,      \* process.pid of each actor
    op,         \* what the actor is running: "api", "syncNotes", "autoSync", "daemon", "runDaemon"
    pc,         \* the actor's position
    wait,       \* options.wait of the running acquire
    timeoutMs,  \* timeout of the running acquire
    start,      \* start of the running acquire
    wakeAt,     \* when the pending setTimeout fires
    content,    \* what readFile returned
    pendingTs,  \* the Date.now() of the token being written
    result,     \* what the last acquire returned: "true", "false" ("none" while it runs)
    holds,      \* acquire returned true and release was not called since
    lockTs,     \* the timestamp of the token the actor wrote last
    calls,      \* acquire calls made
    releases,   \* release calls made
    attempts,   \* tryLock calls of the running (or last) acquire
    sleeps      \* 500 ms sleeps of the running (or last) acquire

lockVars == <<lockFile, now, alive, pidOf, op, pc, wait, timeoutMs, start, wakeAt,
              content, pendingTs, result, holds, lockTs, calls, releases,
              attempts, sleeps>>

VARIABLES
    log,         \* the git steps of the actor's running (or last) performSync, with outcomes
    passResult,  \* how that performSync ended: "ok", "failed", "thrown", "exit" ("none" before)
    exitOnError, \* options.exitOnError of that performSync
    passes,      \* performSync calls made
    exitCode     \* the status the process exited with (read once pc is "exited")

passVars == <<log, passResult, exitOnError, passes, exitCode>>

VARIABLES
    dirs,        \* the directories under the notes root, as paths relative to it
    files,       \* the note files: directory, filename, content
    notes,       \* the rows of table notes of mnote.db
    notes_fts,   \* the rows of table notes_fts
    nextId,      \* the next AUTOINCREMENT id of table notes
    indexError,  \* an index update has failed ("Warning: Failed to update search index")
    storeCalls,  \* calls of the store made
    ret,         \* the last call whose outcome is recorded: its name, arguments and outcome
    dbFile,      \* <root>/mnote.db exists
    config,      \* config.json: the value at each key path that holds one
    conflicted   \* the git working tree of the root is in a rebase stopped by a conflict

storeVars == <<dirs, files, notes, notes_fts, nextId, indexError, storeCalls, ret, dbFile,
               config, conflicted>>

vars == <<lockVars, passVars, storeVars>>

(***************************************************************************)
(* LockManager (index.ts 525-647)                                          *)
(***************************************************************************)
\* index.ts:569-570  parseInt of the two parts of the content
parsePid(c) == IF c.kind = "token" THEN c.pid ELSE NaN
parseTs(c) == IF c.kind = "token" THEN c.ts ELSE NaN

\* index.ts:638-646  process.kill(pid, 0) succeeds (or EPERM) for a running process
isProcessRunning(p) == alive[p]

\* index.ts:574-590  the lock read is one to take over
IsStale_Always(c, t) == TRUE
IsStale(c, t) == \/ ~isProcessRunning(parsePid(c))
                 \/ t - parseTs(c) > StaleMs

\* index.ts:602  writeFile(..., { flag: 'wx' }) creates the file only when there is none
CanCreate_NoExcl(f) == TRUE
CanCreate(f) == f = NoFile

\* index.ts:551  Date.now() - start > timeout
TimedOut_EarlyByOnePoll(t, s, limit) == t - s + PollMs > limit
TimedOut(t, s, limit) == t - s > limit

\* index.ts:623  pidStr && parseInt(pidStr, 10) === process.pid
OwnsLock(a, c) == c.kind = "token" /\ parsePid(c) = pidOf[a]

\* where an actor goes when acquire / release return to its caller
AfterAcquire(a) == IF op[a] = "api" THEN "idle" ELSE "acquired_ret"
AfterRelease(a) == IF op[a] = "api" THEN "idle" ELSE "released_ret"

callerVars == <<alive, pidOf, op, passVars, storeVars>>

\* index.ts:538-541  acquire(options): start = Date.now(), then the first tryLock
acquire(a, w, t) ==
    /\ pc' = [pc EXCEPT ![a] = "try_exists"]
    /\ wait' = [wait EXCEPT ![a] = w]
    /\ timeoutMs' = [timeoutMs EXCEPT ![a] = t]
    /\ start' = [start EXCEPT ![a] = now]
    /\ result' = [result EXCEPT ![a] = "none"]
    /\ calls' = [calls EXCEPT ![a] = @ + 1]
    /\ attempts' = [attempts EXCEPT ![a] = 0]
    /\ sleeps' = [sleeps EXCEPT ![a] = 0]
    /\ UNCHANGED <<lockFile, now, wakeAt, content, pendingTs, holds, lockTs, releases>>

\* index.ts:543-556  tryLock returned false: return false (no wait, or timed out) or sleep 500 ms
\* (the content tryLock had read is gone with its frame)
tryLockFailed(a) ==
    IF ~wait[a] \/ TimedOut(now, start[a], timeoutMs[a])
    THEN /\ pc' = [pc EXCEPT ![a] = AfterAcquire(a)]
         /\ result' = [result EXCEPT ![a] = "false"]
         /\ UNCHANGED <<wakeAt, sleeps>>
    ELSE /\ pc' = [pc EXCEPT ![a] = "sleep"]
         /\ wakeAt' = [wakeAt EXCEPT ![a] = now + PollMs]
         /\ sleeps' = [sleeps EXCEPT ![a] = @ + 1]
         /\ UNCHANGED result

\* index.ts:563  existsSync(this.lockFile)
TryExists(a) ==
    /\ pc[a] = "try_exists"
    /\ attempts' = [attempts EXCEPT ![a] = @ + 1]
    /\ pc' = [pc EXCEPT ![a] = IF lockFile # NoFile THEN "try_read" ELSE "try_open"]
    /\ UNCHANGED <<lockFile, now, wait, timeoutMs, start, wakeAt, content, pendingTs,
                   result, holds, lockTs, calls, releases, sleeps>>
    /\ UNCHANGED callerVars

\* index.ts:564  await readFile(this.lockFile): ENOENT is caught at 605-612, tryLock returns false
TryRead(a) ==
    /\ pc[a] = "try_read"
    /\ IF lockFile = NoFile
       THEN /\ tryLockFailed(a)
            /\ content' = [content EXCEPT ![a] = NoFile]
       ELSE /\ content' = [content EXCEPT ![a] = lockFile]
            /\ pc' = [pc EXCEPT ![a] = "try_check"]
            /\ UNCHANGED <<wakeAt, sleeps, result>>
    /\ UNCHANGED <<lockFile, now, wait, timeoutMs, start, pendingTs,
                   holds, lockTs, calls, releases, attempts>>
    /\ UNCHANGED callerVars

\* index.ts:565-591  parse; no pid: fall through to the create; stale: forceUnlock; else return false
TryCheck(a) ==
    /\ pc[a] = "try_check"
    /\ IF parsePid(content[a]) = NaN
       THEN /\ pc' = [pc EXCEPT ![a] = "try_open"]
            /\ UNCHANGED <<wakeAt, sleeps, result>>
       ELSE IF IsStale(content[a], now)
            THEN /\ pc' = [pc EXCEPT ![a] = "try_unlink"]
                 /\ UNCHANGED <<wakeAt, sleeps, result>>
            ELSE tryLockFailed(a)
    /\ content' = [content EXCEPT ![a] = IF pc'[a] = "try_unlink" THEN @ ELSE NoFile]
    /\ UNCHANGED <<lockFile, now, wait, timeoutMs, start, pendingTs,
                   holds, lockTs, calls, releases, attempts>>
    /\ UNCHANGED callerVars

\* index.ts:632-636  forceUnlock: unlink, errors swallowed
forceUnlock(a) ==
    /\ pc[a] = "try_unlink"
    /\ lockFile' = NoFile
    /\ pc' = [pc EXCEPT ![a] = "try_open"]
    /\ UNCHANGED <<now, wait, timeoutMs, start, wakeAt, content, pendingTs,
                   result, holds, lockTs, calls, releases, attempts, sleeps>>
    /\ UNCHANGED callerVars

\* index.ts:602  writeFile with 'wx': the exclusive open; EEXIST makes tryLock return false (606-608)
TryOpen(a) ==
    /\ pc[a] = "try_open"
    /\ IF CanCreate(lockFile)
       THEN /\ lockFile' = EmptyFile(a)
            /\ pendingTs' = [pendingTs EXCEPT ![a] = now]
            /\ pc' = [pc EXCEPT ![a] = "try_write"]
            /\ UNCHANGED <<wakeAt, sleeps, result>>
       ELSE /\ tryLockFailed(a)
            /\ UNCHANGED <<lockFile, pendingTs>>
    /\ content' = [content EXCEPT ![a] = IF pc'[a] = "try_write" THEN @ ELSE NoFile]
    /\ UNCHANGED <<now, wait, timeoutMs, start,
                   holds, lockTs, calls, releases, attempts>>
    /\ UNCHANGED callerVars

\* index.ts:602-603, 543-545  the token is written to the file opened (which may have
\* been unlinked meanwhile); tryLock and acquire return true
TryWrite(a) ==
    /\ pc[a] = "try_write"
    /\ lockFile' = IF lockFile = EmptyFile(a)
                   THEN Token(a, pidOf[a], pendingTs[a])
                   ELSE lockFile
    /\ lockTs' = [lockTs EXCEPT ![a] = pendingTs[a]]
    /\ pc' = [pc EXCEPT ![a] = AfterAcquire(a)]
    /\ result' = [result EXCEPT ![a] = "true"]
    /\ holds' = [holds EXCEPT ![a] = TRUE]
    /\ pendingTs' = [pendingTs EXCEPT ![a] = 0]
    /\ content' = [content EXCEPT ![a] = NoFile]
    /\ UNCHANGED <<now, wait, timeoutMs, start, wakeAt,
                   calls, releases, attempts, sleeps>>
    /\ UNCHANGED callerVars

\* index.ts:556  the 500 ms timer fires and the loop calls tryLock again
Wake(a) ==
    /\ pc[a] = "sleep"
    /\ now >= wakeAt[a]
    /\ pc' = [pc EXCEPT ![a] = "try_exists"]
    /\ wakeAt' = [wakeAt EXCEPT ![a] = 0]
    /\ UNCHANGED <<lockFile, now, wait, timeoutMs, start, content, pendingTs,
                   result, holds, lockTs, calls, releases, attempts, sleeps>>
    /\ UNCHANGED callerVars

\* index.ts:615  release() is called
release(a) ==
    /\ pc' = [pc EXCEPT ![a] = "rel_exists"]
    /\ holds' = [holds EXCEPT ![a] = FALSE]
    /\ releases' = [releases EXCEPT ![a] = @ + 1]
    /\ UNCHANGED <<lockFile, now, wait, timeoutMs, start, wakeAt, content, pendingTs,
                   result, lockTs, calls, attempts, sleeps>>

\* index.ts:617  existsSync(this.lockFile)
RelExists(a) ==
    /\ pc[a] = "rel_exists"
    /\ pc' = [pc EXCEPT ![a] = IF lockFile # NoFile THEN "rel_read" ELSE AfterRelease(a)]
    /\ UNCHANGED <<lockFile, now, wait, timeoutMs, start, wakeAt, content, pendingTs,
                   result, holds, lockTs, calls, releases, attempts, sleeps>>
    /\ UNCHANGED callerVars

\* index.ts:620-623  readFile (ENOENT caught at 627) and the comparison with process.pid
RelRead(a) ==
    /\ pc[a] = "rel_read"
    /\ pc' = [pc EXCEPT ![a] = IF lockFile # NoFile /\ OwnsLock(a, lockFile)
                               THEN "rel_unlink" ELSE AfterRelease(a)]
    /\ UNCHANGED <<lockFile, now, wait, timeoutMs, start, wakeAt, content, pendingTs,
                   result, holds, lockTs, calls, releases, attempts, sleeps>>
    /\ UNCHANGED callerVars

\* index.ts:624  unlink(this.lockFile), errors swallowed (627-629)
RelUnlink(a) ==
    /\ pc[a] = "rel_unlink"
    /\ lockFile' = NoFile
    /\ pc' = [pc EXCEPT ![a] = AfterRelease(a)]
    /\ UNCHANGED <<now, wait, timeoutMs, start, wakeAt, content, pendingTs,
                   result, holds, lockTs, calls, releases, attempts, sleeps>>
    /\ UNCHANGED callerVars

(***************************************************************************)
(* SpecLock: two LockManager instances used through acquire and release,   *)
(* as tests/sync_daemon_service.spec.ts 24-100 uses them, in two processes *)
(* or in one; the lock starts free or left behind by a process that died.  *)
(***************************************************************************)
InitPassVars ==
    /\ log = [a \in Actors |-> <<>>]
    /\ passResult = [a \in Actors |-> "none"]
    /\ exitOnError = [a \in Actors |-> TRUE]
    /\ passes = [a \in Actors |-> 0]
    /\ exitCode = [a \in Actors |-> 0]

InitStoreVars ==
    /\ dirs = {<<>>}
    /\ files = {}
    /\ notes = {}
    /\ notes_fts = {}
    /\ nextId = 1
    /\ indexError = FALSE
    /\ storeCalls = 0
    /\ ret = NoRet
    /\ dbFile = FALSE
    /\ config = EmptyConfig
    /\ conflicted = FALSE

InitProcs ==
    /\ op = [a \in Actors |-> "api"]
    /\ pc = [a \in Actors |-> "idle"]
    /\ wait = [a \in Actors |-> FALSE]
    /\ timeoutMs = [a \in Actors |-> DefaultTimeoutMs]
    /\ start = [a \in Actors |-> 0]
    /\ wakeAt = [a \in Actors |-> 0]
    /\ content = [a \in Actors |-> NoFile]
    /\ pendingTs = [a \in Actors |-> 0]
    /\ result = [a \in Actors |-> "none"]
    /\ holds = [a \in Actors |-> FALSE]
    /\ lockTs = [a \in Actors |-> 0]
    /\ calls = [a \in Actors |-> 0]
    /\ releases = [a \in Actors |-> 0]
    /\ attempts = [a \in Actors |-> 0]
    /\ sleeps = [a \in Actors |-> 0]
    /\ InitPassVars

InitActors == InitProcs /\ InitStoreVars

InitLock ==
    /\ InitActors
    /\ now = 0
    /\ alive = [p \in AllPids |-> p \in Pids]
    /\ pidOf \in {[a \in Actors |-> IF a = "a1" THEN 1 ELSE 2], [a \in Actors |-> 1]}
    /\ lockFile \in {NoFile, Token("gone", DeadPid, 0)}

\* lock.acquire(), lock.acquire({ wait: false }), lock.acquire({ wait: true, timeoutMs })
ApiAcquire(a) ==
    /\ pc[a] = "idle"
    /\ op[a] = "api"
    /\ calls[a] < MaxCalls
    /\ \E w \in BOOLEAN : acquire(a, w, DefaultTimeoutMs)
    /\ UNCHANGED callerVars

\* lock.release(), also by an instance whose acquire returned false
ApiRelease(a) ==
    /\ pc[a] = "idle"
    /\ op[a] = "api"
    /\ releases[a] < calls[a]
    /\ release(a)
    /\ UNCHANGED callerVars

\* time passes, in steps of half the staleness threshold
Tick ==
    /\ now + TickMs <= MaxTicks * TickMs
    /\ now' = now + TickMs
    /\ UNCHANGED <<lockFile, wait, timeoutMs, start, wakeAt, content, pendingTs,
                   result, holds, lockTs, calls, releases, attempts, sleeps, pc>>
    /\ UNCHANGED callerVars

LockStep(a) ==
    \/ TryExists(a)
    \/ TryRead(a)
    \/ TryCheck(a)
    \/ forceUnlock(a)
    \/ TryOpen(a)
    \/ TryWrite(a)
    \/ Wake(a)
    \/ RelExists(a)
    \/ RelRead(a)
    \/ RelUnlink(a)

NextLock ==
    \/ \E a \in Actors : ApiAcquire(a)
    \/ \E a \in Actors : ApiRelease(a)
    \/ \E a \in Actors : LockStep(a)
    \/ Tick

SpecLock == InitLock /\ [][NextLock]_vars

(***************************************************************************)
(* Claims about the lock manager                                           *)
(***************************************************************************)
LockAge(a) == now - lockTs[a]

\* an actor completes a forceUnlock / a release unlink in this step
DoesForceUnlock(a) == pc[a] = "try_unlink" /\ pc'[a] # "try_unlink"
DoesRelUnlink(a) == pc[a] = "rel_unlink" /\ pc'[a] # "rel_unlink"

\* C1: two processes never both hold the lock (acquire returned true, release not
\* yet called) while each of their locks is younger than 10 minutes.
C1_MutualExclusion ==
    \A a, b \in Actors :
        (a # b /\ pidOf[a] # pidOf[b] /\ holds[a] /\ holds[b])
            => ~(LockAge(a) < StaleMs /\ LockAge(b) < StaleMs)

\* C6: (i) an acquire made by the only process that acts returns true at its first
\* attempt and leaves its own token in the file, whenever the lock it meets is free
\* or stale; (ii) no acquire ever removes a lock file whose owner is running and
\* whose age is 10 minutes or less.
C6_StaleReclaim ==
    [][ /\ \A a, b \in Actors :
             (a # b /\ calls[b] = 0 /\ calls'[a] = 1 /\ releases'[a] = 0
                /\ result[a] = "none" /\ result'[a] # "none" /\ pc[a] # "idle")
                => (result'[a] = "true" /\ attempts'[a] = 1
                    /\ lockFile' = Token(a, pidOf[a], lockTs'[a]))
        /\ \A a \in Actors :
             (DoesForceUnlock(a) /\ lockFile.kind = "token")
                => IsStale(lockFile, now)
      ]_vars

\* C7: a release unlink removes the lock file only when the releasing instance is
\* the current holder (the file holds the token that instance wrote); a release by
\* the holder removes the file.
C7_ReleaseOnlyOwn ==
    [][ /\ \A a \in Actors :
             (DoesRelUnlink(a) /\ lockFile # NoFile) => lockFile.by = a
        /\ \A a \in Actors :
             (pc[a] = "rel_read" /\ pc'[a] # "rel_read"
                /\ lockFile.kind = "token" /\ lockFile.by = a)
                => pc'[a] = "rel_unlink"
      ]_vars

(***************************************************************************)
(* SpecRace: two processes each make one acquire({ wait: false }) on a     *)
(* root whose lock is free, and nobody releases                            *)
(* (tests/sync_daemon_service.spec.ts 40-48).                              *)
(***************************************************************************)
DistinctPids == [a \in Actors |-> IF a = "a1" THEN 1 ELSE 2]

InitRace ==
    /\ InitActors
    /\ now = 0
    /\ alive = [p \in AllPids |-> p \in Pids]
    /\ pidOf = DistinctPids
    /\ lockFile = NoFile

\* lock.acquire({ wait: false }), once per process
RaceAcquire(a) ==
    /\ pc[a] = "idle"
    /\ op[a] = "api"
    /\ calls[a] = 0
    /\ acquire(a, FALSE, DefaultTimeoutMs)
    /\ UNCHANGED callerVars

NextRace ==
    \/ \E a \in Actors : RaceAcquire(a)
    \/ \E a \in Actors : TryExists(a)
    \/ \E a \in Actors : TryRead(a)
    \/ \E a \in Actors : TryCheck(a)
    \/ \E a \in Actors : forceUnlock(a)
    \/ \E a \in Actors : TryOpen(a)
    \/ \E a \in Actors : TryWrite(a)
    \/ Tick

SpecRace == InitRace /\ [][NextRace]_vars

BothReturned == \A a \in Actors : calls[a] = 1 /\ pc[a] = "idle"

\* C5 (as stated): when both acquire calls have returned, exactly one returned true.
C5_ExactlyOneAlways ==
    BothReturned => ((result["a1"] = "true") # (result["a2"] = "true"))

\* C5 (amended): when both acquire calls have returned at least one returned true,
\* and both returned true only if the lock of one of them is older than 10 minutes
\* (it was taken over as stale); as long as the winner's lock is at most 10 minutes
\* old the other call returned false.
C5_ExactlyOneWhileFresh ==
    /\ BothReturned => \E a \in Actors : result[a] = "true"
    /\ (holds["a1"] /\ holds["a2"]) => \E a \in Actors : LockAge(a) > StaleMs

\* both calls have returned, one true and one false, the winner's lock still fresh
C5_Witness ==
    /\ BothReturned
    /\ result["a1"] = "true" /\ result["a2"] = "false"
    /\ attempts["a2"] = 1
    /\ LockAge("a1") <= StaleMs

(***************************************************************************)
(* SpecWait: process 2 holds the lock; process 1 makes one acquire, with   *)
(* or without wait; the holder may release at any time.  The clock moves   *)
(* in steps of the 500 ms poll interval, timers fire on time and file      *)
(* operations take no time (tests/sync_daemon_service.spec.ts 89-100).     *)
(***************************************************************************)
\* Date.now() when the waiter may start
WaitT0 == StaleMs
WaitHorizon == WaitT0 + MaxPolls * PollMs
\* options.timeoutMs of the waiting acquire
Timeouts == {0, PollMs, PollMs + 200, 2 * PollMs}
\* the age of the holder's lock at WaitT0: fresh, or two polls short of 10 minutes
HeldAges == {0, StaleMs - 2 * PollMs}

InitWait ==
    /\ now = WaitT0
    /\ alive = [p \in AllPids |-> p \in Pids]
    /\ pidOf = DistinctPids
    /\ op = [a \in Actors |-> "api"]
    /\ pc = [a \in Actors |-> "idle"]
    /\ wait = [a \in Actors |-> FALSE]
    /\ timeoutMs = [a \in Actors |-> DefaultTimeoutMs]
    /\ \E age \in HeldAges :
         /\ lockFile = Token("a2", 2, WaitT0 - age)
         /\ lockTs = [a \in Actors |-> IF a = "a2" THEN WaitT0 - age ELSE 0]
         /\ start = [a \in Actors |-> IF a = "a2" THEN WaitT0 - age ELSE 0]
    /\ wakeAt = [a \in Actors |-> 0]
    /\ content = [a \in Actors |-> NoFile]
    /\ pendingTs = [a \in Actors |-> 0]
    /\ result = [a \in Actors |-> IF a = "a2" THEN "true" ELSE "none"]
    /\ holds = [a \in Actors |-> a = "a2"]
    /\ calls = [a \in Actors |-> IF a = "a2" THEN 1 ELSE 0]
    /\ releases = [a \in Actors |-> 0]
    /\ attempts = [a \in Actors |-> IF a = "a2" THEN 1 ELSE 0]
    /\ sleeps = [a \in Actors |-> 0]
    /\ InitPassVars
    /\ InitStoreVars

\* lock2.acquire({ wait, timeoutMs }), started early enough to end within the horizon
WaitAcquire ==
    /\ pc["a1"] = "idle"
    /\ calls["a1"] = 0
    /\ \E w \in BOOLEAN, t \in Timeouts :
         /\ now + t + PollMs <= WaitHorizon
         /\ acquire("a1", w, t)
    /\ UNCHANGED callerVars

\* lock1.release() by the holder
HolderRelease ==
    /\ pc["a2"] = "idle"
    /\ holds["a2"]
    /\ release("a2")
    /\ UNCHANGED callerVars

\* 500 ms pass: nobody is inside a file operation, and no pending timer is overrun
PollTick ==
    /\ now + PollMs <= WaitHorizon
    /\ \A a \in Actors : pc[a] \in {"idle", "sleep"}
    /\ \A a \in Actors : pc[a] = "sleep" => now + PollMs <= wakeAt[a]
    /\ now' = now + PollMs
    /\ UNCHANGED <<lockFile, wait, timeoutMs, start, wakeAt, content, pendingTs,
                   result, holds, lockTs, calls, releases, attempts, sleeps, pc>>
    /\ UNCHANGED callerVars

NextWait ==
    \/ WaitAcquire
    \/ HolderRelease
    \/ \E a \in Actors : LockStep(a)
    \/ PollTick

SpecWait == InitWait /\ [][NextWait]_vars

\* the event loop runs every ready continuation, and timers fire
SpecWaitFair ==
    /\ SpecWait
    /\ \A a \in Actors : WF_vars(LockStep(a))
    /\ WF_vars(PollTick)

Elapsed(a) == now - start[a]
Returns(a) == result[a] = "none" /\ result'[a] # "none"

\* the parts of C8 that do not depend on the age of the held lock:
\* without wait one attempt and no sleep; with wait, false is returned only once more
\* than T has elapsed, at most one poll interval after T, after one attempt per
\* 500 ms; an attempt begun on a free lock returns true
C8_Common ==
    /\ (Returns("a1") /\ ~wait["a1"]) => (attempts'["a1"] = 1 /\ sleeps'["a1"] = 0)
    /\ (Returns("a1") /\ wait["a1"] /\ result'["a1"] = "false")
          => /\ Elapsed("a1") > timeoutMs["a1"]
             /\ Elapsed("a1") <= timeoutMs["a1"] + PollMs
             /\ attempts'["a1"] = (Elapsed("a1") \div PollMs) + 1
             /\ sleeps'["a1"] = attempts'["a1"] - 1
    /\ (pc["a1"] = "try_exists" /\ pc'["a1"] # "try_exists" /\ lockFile = NoFile)
          => pc'["a1"] = "try_open"
    /\ (pc["a1"] = "try_open" /\ pc'["a1"] # "try_open" /\ lockFile = NoFile)
          => pc'["a1"] = "try_write"
    /\ (pc["a1"] = "try_write" /\ pc'["a1"] # "try_write") => result'["a1"] = "true"

\* C8 (as stated): acquire terminates; without wait it makes one attempt and does
\* not sleep; with wait and timeout T against a lock that stays held by a live
\* process it retries every 500 ms and returns false, after T and at most 500 ms
\* after T; it returns true at the first attempt made after the lock became free.
C8_AcquireTiming ==
    /\ (calls["a1"] = 1) ~> (pc["a1"] = "idle")
    /\ [][ /\ C8_Common
           /\ (Returns("a1") /\ wait["a1"] /\ releases["a2"] = 0)
                 => result'["a1"] = "false"
         ]_vars

\* C8 (amended): as stated, except that against a lock that stays held by a live
\* process the waiting acquire returns false only while that lock is at most 10
\* minutes old at each attempt; an attempt that finds it older takes it over and
\* acquire returns true.
C8_AcquireTimingWhileFresh ==
    /\ (calls["a1"] = 1) ~> (pc["a1"] = "idle")
    /\ [][ /\ C8_Common
           /\ (Returns("a1") /\ releases["a2"] = 0)
                 => (result'["a1"] = "true" <=> now - lockTs["a2"] > StaleMs)
         ]_vars

\* a waiting acquire against the held, fresh lock has timed out one poll after T
C8_Witness ==
    /\ wait["a1"] /\ result["a1"] = "false" /\ pc["a1"] = "idle"
    /\ timeoutMs["a1"] = PollMs /\ attempts["a1"] = 3 /\ sleeps["a1"] = 2
    /\ releases["a2"] = 0 /\ holds["a2"]
    /\ lockFile = Token("a2", 2, lockTs["a2"])

(***************************************************************************)
(* performSync (sync.ts 72-150).  Each git call is a step whose outcome is *)
(* an input; the step and its outcome are appended to the actor's log.     *)
(***************************************************************************)
\* number of performSync calls one actor makes in SpecPass
MaxPasses == 2

lockData == <<lockFile, now, wait, timeoutMs, start, wakeAt, content, pendingTs,
              result, holds, lockTs, calls, releases, attempts, sleeps>>

SyncOps == {"syncNotes", "autoSync", "daemon", "runDaemon"}

\* where an actor goes when performSync returns or throws to its caller
AfterPass(a) == IF op[a] \in SyncOps THEN "pass_ret" ELSE "idle"

Logged(a, s, o) == log' = [log EXCEPT ![a] = Append(@, [step |-> s, out |-> o])]

\* process.exit(code): the process is gone, nothing of it runs any more
processExit(a, code) ==
    /\ pc' = [pc EXCEPT ![a] = "exited"]
    /\ alive' = [alive EXCEPT ![pidOf[a]] = FALSE]
    /\ exitCode' = [exitCode EXCEPT ![a] = code]

\* process.exit(1) inside performSync
passExits(a) ==
    /\ processExit(a, 1)
    /\ passResult' = [passResult EXCEPT ![a] = "exit"]

\* the pass goes on with the next git call
passGoes(a, next) ==
    /\ pc' = [pc EXCEPT ![a] = next]
    /\ UNCHANGED <<alive, passResult, exitCode>>

\* the pass returns (how = "ok", "failed") or throws (how = "thrown")
passEnds(a, how) ==
    /\ pc' = [pc EXCEPT ![a] = AfterPass(a)]
    /\ passResult' = [passResult EXCEPT ![a] = how]
    /\ UNCHANGED <<alive, exitCode>>

\* sync.ts:137-149  the catch block: log, and exit when exitOnError
passCaught(a) ==
    IF exitOnError[a] THEN passExits(a) ELSE passEnds(a, "failed")

\* sync.ts:72-84  performSync(options) is entered
performSync(a, exits) ==
    /\ pc' = [pc EXCEPT ![a] = "ps_git"]
    /\ log' = [log EXCEPT ![a] = <<>>]
    /\ passResult' = [passResult EXCEPT ![a] = "none"]
    /\ exitOnError' = [exitOnError EXCEPT ![a] = exits]
    /\ passes' = [passes EXCEPT ![a] = @ + 1]

\* sync.ts:86-93  isGitInstalled(); outside the try block
StepGit(a) ==
    /\ pc[a] = "ps_git"
    /\ \E o \in {"ok", "fail"} :
         /\ Logged(a, "git", o)
         /\ IF o = "ok" THEN passGoes(a, "ps_repo")
            ELSE IF exitOnError[a] THEN passExits(a)
            ELSE passEnds(a, "thrown")
    /\ UNCHANGED <<storeVars, lockData, pidOf, op, exitOnError, passes>>

\* sync.ts:96-101  git.checkIsRepo()
StepRepo(a) ==
    /\ pc[a] = "ps_repo"
    /\ \E o \in {"ok", "fail"} :
         /\ Logged(a, "repo", o)
         /\ IF o = "ok" THEN passGoes(a, "ps_status") ELSE passCaught(a)
    /\ UNCHANGED <<storeVars, lockData, pidOf, op, exitOnError, passes>>

\* sync.ts:103-104  git.status(): files.length > 0 or not
StepStatus(a) ==
    /\ pc[a] = "ps_status"
    /\ \E o \in {"dirty", "clean", "fail"} :
         /\ Logged(a, "status", o)
         /\ IF o = "dirty" THEN passGoes(a, "ps_commit")
            ELSE IF o = "clean" THEN passGoes(a, "ps_remotes")
            ELSE passCaught(a)
    /\ UNCHANGED <<storeVars, lockData, pidOf, op, exitOnError, passes>>

\* sync.ts:105-107  git.add('.') and git.commit(...)
StepCommit(a) ==
    /\ pc[a] = "ps_commit"
    /\ \E o \in {"ok", "fail"} :
         /\ Logged(a, "commit", o)
         /\ IF o = "ok" THEN passGoes(a, "ps_remotes") ELSE passCaught(a)
    /\ UNCHANGED <<storeVars, lockData, pidOf, op, exitOnError, passes>>

\* sync.ts:113-118  git.getRemotes(); without 'origin' the pass returns
StepRemotes(a) ==
    /\ pc[a] = "ps_remotes"
    /\ \E o \in {"origin", "none", "fail"} :
         /\ Logged(a, "remotes", o)
         /\ IF o = "origin" THEN passGoes(a, "ps_pull")
            ELSE IF o = "none" THEN passEnds(a, "ok")
            ELSE passCaught(a)
    /\ UNCHANGED <<storeVars, lockData, pidOf, op, exitOnError, passes>>

\* sync.ts:121-130  a failed pull is rethrown, as a conflict or as it is
PullFails_OnlyOnConflict(o) == o = "conflict"
PullFails(o) == o # "ok"

\* sync.ts:120-130  git.pull('origin', branch, { '--rebase': 'true' })
StepPull(a) ==
    /\ pc[a] = "ps_pull"
    /\ \E o \in {"ok", "conflict", "fail"} :
         /\ Logged(a, "pull", o)
         /\ IF PullFails(o) THEN passCaught(a) ELSE passGoes(a, "ps_push")
    /\ UNCHANGED <<storeVars, lockData, pidOf, op, exitOnError, passes>>

\* sync.ts:132-135  git.push('origin', branch)
StepPush(a) ==
    /\ pc[a] = "ps_push"
    /\ \E o \in {"ok", "fail"} :
         /\ Logged(a, "push", o)
         /\ IF o = "ok" THEN passEnds(a, "ok") ELSE passCaught(a)
    /\ UNCHANGED <<storeVars, lockData, pidOf, op, exitOnError, passes>>

\* sync.ts:86-93, 137-149  what the caller of performSync gets from a pass that has
\* ended: the error thrown before the try block rejects the promise; an error
\* caught by the catch block ends in process.exit(1) or in a normal return
Delivered(a) ==
    CASE passResult[a] = "thrown" -> [kind |-> "rejects", error |-> "git is not installed"]
      [] passResult[a] = "exit"   -> [kind |-> "exits", error |-> "1"]
      [] OTHER                    -> [kind |-> "resolves", error |-> "none"]

PassStep(a) ==
    \/ StepGit(a)
    \/ StepRepo(a)
    \/ StepStatus(a)
    \/ StepCommit(a)
    \/ StepRemotes(a)
    \/ StepPull(a)
    \/ StepPush(a)

(***************************************************************************)
(* SpecPass: performSync called directly, as                               *)
(* tests/sync_daemon_service.spec.ts 103-230 calls it, by two processes.   *)
(***************************************************************************)
InitPass ==
    /\ InitActors
    /\ now = 0
    /\ alive = [p \in AllPids |-> p \in Pids]
    /\ pidOf = DistinctPids
    /\ lockFile = NoFile

\* performSync() or performSync({ exitOnError })
CallPerformSync(a) ==
    /\ pc[a] = "idle"
    /\ passes[a] < MaxPasses
    /\ \E exits \in BOOLEAN : performSync(a, exits)
    /\ UNCHANGED <<storeVars, lockData, alive, pidOf, op, exitCode>>

NextPass ==
    \/ \E a \in Actors : CallPerformSync(a)
    \/ \E a \in Actors : PassStep(a)

SpecPass == InitPass /\ [][NextPass]_vars

StepsOf(L) == [i \in 1..Len(L) |-> L[i].step]
IsPrefix(p, q) == Len(p) <= Len(q) /\ \A i \in 1..Len(p) : p[i] = q[i]
\* the steps of a whole pass, given what its status call found
ExpectedSteps(L) ==
    <<"git", "repo", "status">>
        \o (IF \E i \in 1..Len(L) : L[i] = [step |-> "status", out |-> "dirty"]
            THEN <<"commit">> ELSE <<>>)
        \o <<"remotes", "pull", "push">>
StepFailed(e) == e.out \in {"fail", "conflict"}

\* C10: the steps of a pass are a prefix of: git check, repository check, status,
\* commit (exactly when status found changes), remote check, pull, push; a failed
\* step is the last step; push comes only after a successful pull; when there is no
\* 'origin' the pass ends as a success right at the remote check; and a pass that
\* ended as a success ran to the push or to a remote check without 'origin'.
C10_StepOrder == \A a \in Actors :
    LET L == log[a] IN
    /\ IsPrefix(StepsOf(L), ExpectedSteps(L))
    /\ \A i \in 1..Len(L) : StepFailed(L[i]) => i = Len(L)
    /\ \A i \in 1..Len(L) :
         L[i].step = "push" => \E j \in 1..(i-1) : L[j] = [step |-> "pull", out |-> "ok"]
    /\ \A i \in 1..Len(L) :
         L[i] = [step |-> "remotes", out |-> "none"]
            => (i = Len(L) /\ passResult[a] = "ok" /\ pc[a] = "idle")
    /\ passResult[a] = "ok"
          => /\ L # <<>>
             /\ L[Len(L)] \in {[step |-> "push", out |-> "ok"],
                               [step |-> "remotes", out |-> "none"]}
    /\ (passResult[a] # "none") <=> (pc[a] \in {"idle", "exited"} /\ passes[a] > 0)

\* a pass with local changes and a remote ran all its steps and succeeded
C10_Witness ==
    /\ passResult["a1"] = "ok"
    /\ StepsOf(log["a1"]) = <<"git", "repo", "status", "commit", "remotes", "pull", "push">>

PassOver(a) == passResult[a] # "none"
LastEntry(a) == log[a][Len(log[a])]
Ran(a, s) == \E i \in 1..Len(log[a]) : log[a][i].step = s

\* C11: a pass whose pull reported a conflict ends with the conflict error thrown
\* to the caller of performSync, the conflict is its last step and it made no push.
C11_ConflictDelivered == \A a \in Actors :
    (PassOver(a) /\ LastEntry(a) = [step |-> "pull", out |-> "conflict"])
        => /\ Delivered(a) = [kind |-> "rejects", error |-> "conflict"]
           /\ ~Ran(a, "push")

\* C13: a pass in non-exiting mode that found the root not to be a repository ends
\* with the 'not a git repository' error thrown to the caller of performSync, and it
\* made no commit, pull or push.
C13_NotRepoRejects == \A a \in Actors :
    (PassOver(a) /\ ~exitOnError[a] /\ LastEntry(a) = [step |-> "repo", out |-> "fail"])
        => /\ Delivered(a) = [kind |-> "rejects", error |-> "not a git repository"]
           /\ ~Ran(a, "commit") /\ ~Ran(a, "pull") /\ ~Ran(a, "push")

(***************************************************************************)
(* SpecSync: manual sync, autosync and daemon ticks of two processes on    *)
(* one root (sync.ts 13-57, part_003 183-232).  The lock starts free or    *)
(* left behind by a process that is gone.                                  *)
(***************************************************************************)
\* number of sync operations one process runs in SpecSync
MaxOps == 1

PassPcs == {"ps_git", "ps_repo", "ps_status", "ps_commit", "ps_remotes", "ps_pull", "ps_push"}

InitSync ==
    /\ InitActors
    /\ now = 0
    /\ alive = [p \in AllPids |-> p \in Pids]
    /\ pidOf = DistinctPids
    /\ lockFile \in {NoFile, Token("gone", DeadPid, 0)}

\* where an actor goes when its acquire-sync-release sequence is over: the daemon
\* loop goes on to its interval timer (part_003:227-229)
AfterOp_Stops(a) == "idle"
AfterOp(a) == IF op[a] = "runDaemon" THEN "d_timer" ELSE "idle"

\* sync.ts:13-15  syncNotes(): lock.acquire({ wait: true, timeoutMs: 5000 })
syncNotes(a) ==
    /\ pc[a] = "idle"
    /\ calls[a] < MaxOps
    /\ op' = [op EXCEPT ![a] = "syncNotes"]
    /\ acquire(a, TRUE, SyncNotesTimeoutMs)
    /\ UNCHANGED <<alive, pidOf, passVars, storeVars>>

\* sync.ts:31-39  autoSync(): nothing unless autoSync.enabled is true, then
\* lock.acquire({ wait: true, timeoutMs: 3000 })
autoSync(a) ==
    /\ pc[a] = "idle"
    /\ calls[a] < MaxOps
    /\ \E enabled \in BOOLEAN :
         IF enabled
         THEN /\ op' = [op EXCEPT ![a] = "autoSync"]
              /\ acquire(a, TRUE, AutoSyncTimeoutMs)
              /\ UNCHANGED <<alive, pidOf, passVars, storeVars>>
         ELSE UNCHANGED vars

\* part_003:203-207  one turn of the daemon loop: lock.acquire({ wait: false })
daemonTick(a) ==
    /\ pc[a] = "idle"
    /\ calls[a] < MaxOps
    /\ op' = [op EXCEPT ![a] = "daemon"]
    /\ acquire(a, FALSE, DefaultTimeoutMs)
    /\ UNCHANGED <<alive, pidOf, passVars, storeVars>>

\* sync.ts:21, 46, part_003:213  the exitOnError option each caller passes
ExitsOnError_Always(o) == TRUE
ExitsOnError(o) == o = "syncNotes"

\* sync.ts:16-21, 41-47, part_003:209-214  acquire returned: performSync when it
\* returned true; otherwise syncNotes exits the process, the others give up
AcquiredRet(a) ==
    /\ pc[a] = "acquired_ret"
    /\ IF result[a] = "true"
       THEN /\ performSync(a, ExitsOnError(op[a]))
            /\ UNCHANGED <<alive, exitCode>>
       ELSE IF op[a] = "syncNotes"
       THEN /\ processExit(a, 1)
            /\ UNCHANGED <<log, passResult, exitOnError, passes>>
       ELSE /\ pc' = [pc EXCEPT ![a] = AfterOp(a)]
            /\ UNCHANGED <<alive, passVars>>
    /\ UNCHANGED <<storeVars, lockData, pidOf, op>>

\* sync.ts:22-24, 48-52, part_003:215-219  performSync returned or threw: whatever
\* it did is dropped (a thrown error is caught), the finally block calls lock.release()
PassRet(a) ==
    /\ pc[a] = "pass_ret"
    /\ release(a)
    /\ log' = [log EXCEPT ![a] = <<>>]
    /\ passResult' = [passResult EXCEPT ![a] = "none"]
    /\ UNCHANGED <<alive, pidOf, op, exitOnError, passes, exitCode, storeVars>>

\* release returned: the operation has ended
ReleasedRet(a) ==
    /\ pc[a] = "released_ret"
    /\ pc' = [pc EXCEPT ![a] = AfterOp(a)]
    /\ UNCHANGED <<lockData, callerVars>>

NextSync ==
    \/ \E a \in Actors : syncNotes(a)
    \/ \E a \in Actors : autoSync(a)
    \/ \E a \in Actors : daemonTick(a)
    \/ \E a \in Actors : AcquiredRet(a)
    \/ \E a \in Actors : PassStep(a)
    \/ \E a \in Actors : PassRet(a)
    \/ \E a \in Actors : ReleasedRet(a)
    \/ \E a \in Actors : LockStep(a)
    \/ Tick

SpecSync == InitSync /\ [][NextSync]_vars

InPass(a) == pc[a] \in PassPcs

\* C2: performSync of one process is never in progress while performSync of
\* another process is in progress.
C2_NoOverlap ==
    \A a, b \in Actors : (a # b /\ InPass(a)) => ~InPass(b)

\* the operation of actor a acquired the lock and has ended
OpEnded(a) == pc[a] \in {"idle", "exited"} /\ result[a] = "true"

\* C9: when a sync operation that acquired the lock has ended, the lock file does
\* not hold that process's token.
C9_ReleasedOnEveryExit ==
    \A a \in Actors :
        OpEnded(a) => ~(lockFile.kind = "token" /\ lockFile.pid = pidOf[a])

(***************************************************************************)
(* SpecModes: process a1 runs manual syncs and autosyncs (sync.ts 13-57)   *)
(* on a root whose lock is free, or held by the running process a2 since   *)
(* a moment ago or since almost ten minutes; a2 may release it.            *)
(***************************************************************************)
ModesHorizon == WaitT0 + SyncNotesTimeoutMs + 2 * PollMs

InitModes ==
    \/ InitWait
    \/ /\ InitActors
       /\ now = WaitT0
       /\ alive = [p \in AllPids |-> p \in Pids]
       /\ pidOf = DistinctPids
       /\ lockFile = NoFile

\* `mnote sync`, started early enough to end within the horizon
ModeSyncNotes ==
    /\ now + SyncNotesTimeoutMs + PollMs <= ModesHorizon
    /\ syncNotes("a1")

\* autoSync() after an add, edit or delete, started early enough likewise
ModeAutoSync ==
    /\ now + AutoSyncTimeoutMs + PollMs <= ModesHorizon
    /\ autoSync("a1")

\* 500 ms pass: nobody is inside a file operation or a pass, no pending timer is overrun
ModesTick ==
    /\ now + PollMs <= ModesHorizon
    /\ \A a \in Actors : pc[a] \in {"idle", "sleep", "exited"}
    /\ \A a \in Actors : pc[a] = "sleep" => now + PollMs <= wakeAt[a]
    /\ now' = now + PollMs
    /\ UNCHANGED <<lockFile, wait, timeoutMs, start, wakeAt, content, pendingTs,
                   result, holds, lockTs, calls, releases, attempts, sleeps, pc>>
    /\ UNCHANGED callerVars

\* a continuation of process a1 runs
ModeStep ==
    \/ AcquiredRet("a1")
    \/ PassStep("a1")
    \/ PassRet("a1")
    \/ ReleasedRet("a1")
    \/ LockStep("a1")

NextModes ==
    \/ ModeSyncNotes
    \/ ModeAutoSync
    \/ ModeStep
    \/ HolderRelease
    \/ LockStep("a2")
    \/ ModesTick

SpecModes == InitModes /\ [][NextModes]_vars

\* the event loop runs every ready continuation, and timers fire
SpecModesFair ==
    /\ SpecModes
    /\ WF_vars(ModeStep)
    /\ WF_vars(LockStep("a2"))
    /\ WF_vars(ModesTick)

\* a step at which a sync operation of actor a fails: acquire had returned false, or
\* a git call of the pass fails
SyncFails(a) ==
    \/ pc[a] = "acquired_ret" /\ result[a] = "false" /\ pc'[a] # "acquired_ret"
    \/ /\ Len(log'[a]) = Len(log[a]) + 1
       /\ StepFailed(log'[a][Len(log'[a])])

\* C12: autoSync never exits the process and always returns to its caller, whatever
\* the outcome (switched off, lock busy, git missing, not a repository, conflict,
\* pull or push error); every failure of syncNotes exits the process with a
\* non-zero status.
C12_CallModes ==
    /\ [](op["a1"] = "autoSync" => (pc["a1"] # "exited" /\ alive[pidOf["a1"]]))
    /\ (op["a1"] = "autoSync" /\ pc["a1"] # "idle") ~> (pc["a1"] = "idle")
    /\ [][ (op["a1"] = "syncNotes" /\ SyncFails("a1"))
              => (pc'["a1"] = "exited" /\ ~alive'[pidOf["a1"]] /\ exitCode'["a1"] # 0)
         ]_vars

\* the pass of an autosync has failed at the push and is about to return to autoSync
C12_Witness ==
    /\ op["a1"] = "autoSync" /\ pc["a1"] = "pass_ret"
    /\ passResult["a1"] = "failed"
    /\ LastEntry("a1") = [step |-> "push", out |-> "fail"]

\* process a2 holds the lock it held at the start and has not released it
HolderKeeps == holds["a2"] /\ releases["a2"] = 0 /\ alive[pidOf["a2"]]
\* that lock is at most 10 minutes old
HolderFresh == now - lockTs["a2"] <= StaleMs
ModeTimeout(a) == IF op[a] = "syncNotes" THEN SyncNotesTimeoutMs ELSE AutoSyncTimeoutMs

\* what C14 says of an operation of a1 under the condition Held
C14_Under(Held) ==
    /\ (Returns("a1") /\ Held)
          => /\ result'["a1"] = "false"
             /\ timeoutMs["a1"] = ModeTimeout("a1")
             /\ Elapsed("a1") > timeoutMs["a1"]
             /\ Elapsed("a1") <= timeoutMs["a1"] + PollMs
    /\ (pc["a1"] = "acquired_ret" /\ pc'["a1"] # "acquired_ret" /\ Held)
          => /\ passes' = passes /\ log' = log
             /\ IF op["a1"] = "syncNotes"
                THEN pc'["a1"] = "exited" /\ exitCode'["a1"] # 0
                ELSE pc'["a1"] = "idle" /\ alive'[pidOf["a1"]]
    /\ Held => lockFile' = lockFile

\* C14 (as stated): while the lock stays held by another running process, manual
\* sync gives up after its 5 s and exits with a non-zero status, autosync gives up
\* after its 3 s and returns; neither runs a sync step, and the lock file of the
\* other process is neither removed nor rewritten.
C14_Contention == [][C14_Under(HolderKeeps)]_vars

\* C14 (amended): the same, while the lock held by the other running process is at
\* most 10 minutes old; the wait ends at the first attempt made after the 5 s
\* (3 s) have passed, at most 500 ms later.
C14_ContentionWhileFresh == [][C14_Under(HolderKeeps /\ HolderFresh)]_vars

\* a manual sync has given up after its wait and exited; the holder's lock is in place
C14_Witness ==
    /\ op["a1"] = "syncNotes" /\ pc["a1"] = "exited" /\ exitCode["a1"] = 1
    /\ result["a1"] = "false" /\ passes["a1"] = 0
    /\ now - start["a1"] > SyncNotesTimeoutMs
    /\ HolderKeeps /\ HolderFresh
    /\ lockFile = Token("a2", 2, lockTs["a2"])

(***************************************************************************)
(* SpecDaemon: process a1 runs `mnote daemon` (part_003 183-232) with an   *)
(* interval of IntervalSeconds; process a2 holds, releases and takes the   *)
(* lock; SIGINT or SIGTERM may reach the daemon at any moment.             *)
(***************************************************************************)
\* acquire calls the daemon makes in SpecDaemon
MaxDaemonTicks == 2
\* the --interval option
IntervalSeconds == 1
\* part_003:187
IntervalMs == IntervalSeconds * 1000
DaemonHorizon == WaitT0 + MaxDaemonTicks * IntervalMs

\* part_003:206  the wait option of the daemon's acquire
DaemonWaits_Blocking == TRUE
DaemonWaits == FALSE

\* part_003:202-206  one turn of the loop begins: new LockManager() throws (the
\* outer catch logs it and the loop goes on to its timer), or acquire({ wait: false })
tickBegins(a) ==
    \E ctor \in {"ok", "throws"} :
        IF ctor = "ok"
        THEN /\ acquire(a, DaemonWaits, DefaultTimeoutMs)
             /\ UNCHANGED <<alive, pidOf, passVars, storeVars>>
        ELSE /\ pc' = [pc EXCEPT ![a] = "d_timer"]
             /\ UNCHANGED <<lockData, alive, pidOf, passVars, storeVars>>

\* part_003:183-202  runDaemon(intervalSeconds): the handlers are installed and the
\* loop is entered
runDaemon(a) ==
    /\ pc[a] = "idle"
    /\ op[a] # "runDaemon"
    /\ op' = [op EXCEPT ![a] = "runDaemon"]
    /\ tickBegins(a)

\* part_003:228  setTimeout(r, intervalMs)
DaemonTimer(a) ==
    /\ pc[a] = "d_timer"
    /\ pc' = [pc EXCEPT ![a] = "d_sleep"]
    /\ wakeAt' = [wakeAt EXCEPT ![a] = now + IntervalMs]
    /\ UNCHANGED <<lockFile, now, wait, timeoutMs, start, content, pendingTs,
                   result, holds, lockTs, calls, releases, attempts, sleeps>>
    /\ UNCHANGED callerVars

\* part_003:202, 228  the timer fired; stopping is still false, the next turn begins
DaemonWake(a) ==
    /\ pc[a] = "d_sleep"
    /\ now >= wakeAt[a]
    /\ calls[a] < MaxDaemonTicks
    /\ tickBegins(a)
    /\ UNCHANGED op

\* part_003:190-199  SIGINT or SIGTERM: the handler sets stopping and calls
\* process.exit(0) at once
Signal(a) ==
    /\ op[a] = "runDaemon"
    /\ pc[a] # "exited"
    /\ processExit(a, 0)
    /\ UNCHANGED <<lockData, pidOf, op, log, passResult, exitOnError, passes, storeVars>>

\* another LockManager user tries to take the lock without waiting (once when it
\* had held the lock from the start, twice otherwise)
OtherAcquire ==
    /\ pc["a2"] = "idle"
    /\ ~holds["a2"]
    /\ calls["a2"] < 2
    /\ acquire("a2", FALSE, DefaultTimeoutMs)
    /\ UNCHANGED callerVars

\* 500 ms pass: nobody is inside a file operation or a pass, no pending timer is overrun
DaemonClock ==
    /\ now + PollMs <= DaemonHorizon
    /\ \A a \in Actors : pc[a] \in {"idle", "sleep", "d_sleep", "exited"}
    /\ \A a \in Actors : pc[a] \in {"sleep", "d_sleep"} => now + PollMs <= wakeAt[a]
    /\ now' = now + PollMs
    /\ UNCHANGED <<lockFile, wait, timeoutMs, start, wakeAt, content, pendingTs,
                   result, holds, lockTs, calls, releases, attempts, sleeps, pc>>
    /\ UNCHANGED callerVars

\* the steps of an acquire that does not wait, and of release
QuickLockStep(a) ==
    \/ TryExists(a)
    \/ TryRead(a)
    \/ TryCheck(a)
    \/ forceUnlock(a)
    \/ TryOpen(a)
    \/ TryWrite(a)
    \/ RelExists(a)
    \/ RelRead(a)
    \/ RelUnlink(a)

\* a continuation of the daemon process runs
DaemonStep ==
    \/ AcquiredRet("a1")
    \/ PassStep("a1")
    \/ PassRet("a1")
    \/ ReleasedRet("a1")
    \/ QuickLockStep("a1")
    \/ DaemonTimer("a1")
    \/ DaemonWake("a1")

NextDaemon ==
    \/ runDaemon("a1")
    \/ DaemonStep
    \/ Signal("a1")
    \/ HolderRelease
    \/ OtherAcquire
    \/ QuickLockStep("a2")
    \/ DaemonClock

SpecDaemon == InitModes /\ [][NextDaemon]_vars

\* the event loop runs every ready continuation, and timers fire
SpecDaemonFair ==
    /\ SpecDaemon
    /\ WF_vars(DaemonStep)
    /\ WF_vars(QuickLockStep("a2"))
    /\ WF_vars(DaemonClock)

\* actor a makes a step that is not its exit
Moves(a) == pc'[a] # pc[a] /\ pc'[a] # "exited"
MineIn(a, f) == f.kind = "token" /\ f.pid = pidOf[a]
\* the tryLock of actor a has removed the lock file it had read
HasUnlinked(a) == pc[a] = "try_open" /\ content[a].kind = "token"

\* the parts of C15 other than the one about the lock file of a tick not acquired
C15_Common ==
    /\ Returns("a1") => (~wait["a1"] /\ attempts'["a1"] = 1 /\ sleeps'["a1"] = 0)
    /\ (pc["a1"] = "acquired_ret" /\ Moves("a1"))
          => IF result["a1"] = "false"
             THEN /\ pc'["a1"] = "d_timer"
                  /\ passes' = passes /\ log' = log /\ lockFile' = lockFile
             ELSE /\ passes'["a1"] = passes["a1"] + 1
                  /\ ~exitOnError'["a1"]
    /\ passes'["a1"] # passes["a1"] => (pc["a1"] = "acquired_ret" /\ result["a1"] = "true")
    /\ (pc["a1"] = "pass_ret" /\ Moves("a1")) => releases'["a1"] = releases["a1"] + 1
    /\ (pc'["a1"] = "d_timer" /\ pc["a1"] # "d_timer")
          => (~holds'["a1"] /\ ~MineIn("a1", lockFile'))
    /\ (pc["a1"] = "d_timer" /\ Moves("a1"))
          => (pc'["a1"] = "d_sleep" /\ wakeAt'["a1"] = now + IntervalMs)
    /\ (pc["a1"] = "d_sleep" /\ Moves("a1")) => now >= wakeAt["a1"]

\* C15 (as stated): each daemon tick makes one acquire that does not wait; a tick
\* that did not acquire runs no sync step, goes straight to the interval sleep and
\* has not removed or written the lock file; a tick that acquired runs one
\* performSync with exitOnError false and releases the lock before the interval
\* sleep; the next tick begins when the interval has passed.
C15_Tick ==
    [][ /\ C15_Common
        /\ HasUnlinked("a1") => result'["a1"] # "false"
      ]_vars

\* C15 (amended): as stated, except that only a tick that finds the lock file with
\* the token of a running process at most 10 minutes old is sure to leave the file
\* alone: such a tick is not acquired; no tick touches the file before it has read
\* a lock it may take over.
C15_TickOnLiveLock ==
    [][ /\ C15_Common
        /\ (pc["a1"] \in {"try_exists", "try_read", "try_check"} /\ Moves("a1"))
              => lockFile' = lockFile
        /\ ( /\ pc["a1"] = "try_check" /\ Moves("a1")
             /\ parsePid(content["a1"]) # NaN
             /\ alive[parsePid(content["a1"])]
             /\ now - parseTs(content["a1"]) <= StaleMs )
              => result'["a1"] = "false"
      ]_vars

\* a tick has skipped: the lock of the other process is in place, the daemon sleeps
C15_Witness ==
    /\ op["a1"] = "runDaemon" /\ pc["a1"] = "d_sleep"
    /\ result["a1"] = "false" /\ passes["a1"] = 0 /\ attempts["a1"] = 1
    /\ HolderKeeps /\ lockFile = Token("a2", 2, lockTs["a2"])

\* C16: a git call that fails inside a daemon tick (git missing, not a repository,
\* status, commit, remote, pull or push error, conflict) does not exit the process:
\* the pass returns to the tick, the tick releases the lock and the loop goes to its
\* interval sleep, after which the next turn begins; a failing constructor of the
\* lock likewise; the daemon process exits only through its signal handler.
C16_LoopSurvives ==
    /\ [](pc["a1"] = "exited" => (exitCode["a1"] = 0 /\ passResult["a1"] # "exit"))
    /\ [][ /\ ( /\ Len(log'["a1"]) = Len(log["a1"]) + 1
                /\ StepFailed(log'["a1"][Len(log'["a1"])]) )
                 => (pc'["a1"] = "pass_ret" /\ alive'[pidOf["a1"]])
           /\ (pc'["a1"] = "d_timer" /\ pc["a1"] # "d_timer")
                 => ~MineIn("a1", lockFile')
         ]_vars
    /\ (pc["a1"] = "pass_ret") ~> (pc["a1"] \in {"d_sleep", "exited"})
    /\ (pc["a1"] = "d_sleep" /\ wakeAt["a1"] <= DaemonHorizon /\ calls["a1"] < MaxDaemonTicks)
          ~> (pc["a1"] # "d_sleep")

\* the daemon is in its second turn after a first one that ran a pass, and the pull
\* of the second pass has just ended in a conflict
C16_Witness ==
    /\ op["a1"] = "runDaemon" /\ calls["a1"] = 2 /\ passes["a1"] = 2
    /\ pc["a1"] = "pass_ret" /\ passResult["a1"] = "failed"
    /\ LastEntry("a1") = [step |-> "pull", out |-> "conflict"]

\* C17: when the daemon has stopped on SIGINT or SIGTERM, no tick of it was cut
\* short: the lock it had acquired was released and the lock file does not hold
\* its token.
C17_SignalDefers ==
    (op["a1"] = "runDaemon" /\ pc["a1"] = "exited")
        => (~holds["a1"] /\ ~MineIn("a1", lockFile))

(***************************************************************************)
(* The note store and its search index (part_007 583-1301).                *)
(* A book identifier is the sequence of the segments of the string the     *)
(* caller passes ("a/./b" is <<"a", ".", "b">>, "" is <<>>).  A content is *)
(* the sequence of its lines, each line one word.                          *)
(***************************************************************************)
\* number of rows ever inserted into table notes
MaxIds == 2

Names == {"a", "b"}
\* the book identifiers the callers pass: "a", "b", "a/b", "./a", "" and ".."
BookIds == {<<"a">>, <<"b">>, <<"a", "b">>, <<".", "a">>, <<>>, <<"..">>}
Contents == {<<"x">>, <<"X", "y">>, <<>>}
\* the words searched for: the words of the contents
Keywords == {"x", "X", "y"}

\* the store as one value, for the functions below
Store == [dirs |-> dirs, files |-> files, notes |-> notes, fts |-> notes_fts,
          nextId |-> nextId, err |-> indexError, db |-> dbFile]

\* part_007:650-673  getDB(): new Database(dbPath, { create: true }) makes the file
\* when it is missing, and initDB makes the empty tables
getDB(s) == [s EXCEPT !.db = TRUE]

\* part_007:780-783  resolve(resolvedHome, book), then relative(resolvedHome, path):
\* "." is dropped, ".." drops the segment before it, or stays when there is none
RECURSIVE RelativeFrom(_, _)
RelativeFrom(done, b) ==
    IF b = <<>> THEN done
    ELSE IF Head(b) = "." THEN RelativeFrom(done, Tail(b))
    ELSE IF Head(b) = ".."
         THEN IF done = <<>> \/ done[Len(done)] = ".."
              THEN RelativeFrom(Append(done, ".."), Tail(b))
              ELSE RelativeFrom(SubSeq(done, 1, Len(done) - 1), Tail(b))
    ELSE RelativeFrom(Append(done, Head(b)), Tail(b))
Relative(b) == RelativeFrom(<<>>, b)

\* rel.startsWith('..'): the first segment is "..", or a name that begins with two dots
startsWithDotDot(rel) == rel # <<>> /\ rel[1] \in {"..", "..a"}

\* part_007:785-787  the book is refused when rel.startsWith('..'); relative() of
\* two paths of one root is never absolute
Accepts(b) == ~startsWithDotDot(Relative(b))

IsPrefixOf(p, q) == Len(p) <= Len(q) /\ SubSeq(q, 1, Len(p)) = p

\* part_007:789  mkdir(path, { recursive: true })
mkdirp(s, d) == [s EXCEPT !.dirs = @ \cup {SubSeq(d, 1, n) : n \in 0..Len(d)}]

\* what a call throws, and what it returns
Throws(e) == [kind |-> "throws", error |-> e]
Returned(v) == [kind |-> "returns", value |-> v]

\* part_007:779-791  getBookPath(book): the error, or the directory made and its path
getBookPath(s, book) ==
    IF ~Accepts(book) THEN [st |-> s, out |-> Throws("traversal")]
    ELSE [st |-> mkdirp(s, Relative(book)), out |-> Returned(Relative(book))]

\* part_007:628-638  slugify: lower case (the words here have nothing else to change)
slugify(w) == IF w = "X" THEN "x" ELSE w

\* a filename `${datePrefix}-${slug}.md` (n = 0) or `${datePrefix}-${slug}-${n}.md`
Filename(slug, n) == [slug |-> slug, n |-> n]

\* part_007:860-871  the title: the first line, or 'untitled'
TitleOf(c) == IF c # <<>> THEN c[1] ELSE "untitled"

FileAt(s, d, f) == {x \in s.files : x.dir = d /\ x.fname = f}

\* part_007:881-890  the first of slug.md, slug-1.md, slug-2.md ... that does not exist
FreeFilename_NoCheck(s, d, slug) == Filename(slug, 0)
FreeFilename(s, d, slug) ==
    LET n == CHOOSE n \in 0..Cardinality(s.files) :
                 /\ FileAt(s, d, Filename(slug, n)) = {}
                 /\ \A m \in 0..(n - 1) : FileAt(s, d, Filename(slug, m)) # {}
    IN Filename(slug, n)

\* writeFile(filePath, content): creates the file or replaces its content
writeFile_Title(s, d, f, c) ==
    [s EXCEPT !.files = (@ \ FileAt(s, d, f)) \cup {[dir |-> d, fname |-> f, content |-> <<TitleOf(c)>>]}]
writeFile(s, d, f, c) ==
    [s EXCEPT !.files = (@ \ FileAt(s, d, f)) \cup {[dir |-> d, fname |-> f, content |-> c]}]

\* unlink(filePath)
unlink(s, d, f) == [s EXCEPT !.files = @ \ FileAt(s, d, f)]

\* part_007:722, 763  SELECT id FROM notes WHERE book = $book AND filename = $filename
Existing(s, book, f) == {r \in s.notes : r.book = book /\ r.filename = f}
FirstId(rows) == CHOOSE i \in {r.id : r \in rows} : \A r \in rows : i <= r.id

FtsRow(id, book, f, path, c) ==
    [rowid |-> id, book |-> book, filename |-> f, path |-> path, content |-> c]

\* part_007:720-754  indexNote(book, filename, content, path); a second row with the
\* same path breaks the UNIQUE constraint, the transaction fails, the caller logs it
indexNote_KeepFts(s0, book, f, c, path) ==
    LET s == getDB(s0) IN
    IF Existing(s, book, f) # {}
    THEN LET id == FirstId(Existing(s, book, f)) IN
         [s EXCEPT !.notes = {IF r.id = id THEN [r EXCEPT !.content = c] ELSE r : r \in @},
                   !.fts = @ \cup {FtsRow(id, book, f, path, c)}]
    ELSE IF \E r \in s.notes : r.path = path
    THEN [s EXCEPT !.err = TRUE]
    ELSE [s EXCEPT !.notes = @ \cup {[id |-> s.nextId, book |-> book, filename |-> f,
                                      path |-> path, content |-> c]},
                   !.fts = @ \cup {FtsRow(s.nextId, book, f, path, c)},
                   !.nextId = @ + 1]
indexNote(s0, book, f, c, path) ==
    LET s == getDB(s0) IN
    IF Existing(s, book, f) # {}
    THEN LET id == FirstId(Existing(s, book, f)) IN
         [s EXCEPT !.notes = {IF r.id = id THEN [r EXCEPT !.content = c] ELSE r : r \in @},
                   !.fts = {r \in @ : r.rowid # id} \cup {FtsRow(id, book, f, path, c)}]
    ELSE IF \E r \in s.notes : r.path = path
    THEN [s EXCEPT !.err = TRUE]
    ELSE [s EXCEPT !.notes = @ \cup {[id |-> s.nextId, book |-> book, filename |-> f,
                                      path |-> path, content |-> c]},
                   !.fts = @ \cup {FtsRow(s.nextId, book, f, path, c)},
                   !.nextId = @ + 1]

\* part_007:761-771  unindexNote(book, filename)
unindexNote(s0, book, f) ==
    LET s == getDB(s0) IN
    IF Existing(s, book, f) # {}
    THEN LET id == FirstId(Existing(s, book, f)) IN
         [s EXCEPT !.notes = {r \in @ : r.id # id},
                   !.fts = {r \in @ : r.rowid # id}]
    ELSE s

\* part_007:857-930  addNote(book, content): the file, then the index
addNote(s, book, c) ==
    IF ~Accepts(book) THEN s
    ELSE LET d == Relative(book)
             s1 == mkdirp(s, d)
             f == FreeFilename(s1, d, slugify(TitleOf(c)))
         IN indexNote(writeFile(s1, d, f, c), book, f, c, <<d, f>>)

\* localeCompare of two filenames of one day: by slug, and slug-1.md, slug-2.md
\* come before slug.md ('-' sorts before '.')
\* (a name without a date, INDEX.md or README.md, comes after the names that begin
\* with the digits of a date)
SlugRank(w) == CASE w = "untitled" -> 1 [] w = "x" -> 2 [] w = "y" -> 3
                 [] w = "INDEX" -> 4 [] w = "README" -> 5
FilenameKey(f) == <<SlugRank(f.slug), IF f.n = 0 THEN MaxIds + 1 ELSE f.n>>
FilenameBefore(f, g) ==
    \/ FilenameKey(f)[1] < FilenameKey(g)[1]
    \/ FilenameKey(f)[1] = FilenameKey(g)[1] /\ FilenameKey(f)[2] <= FilenameKey(g)[2]

RECURSIVE SortNotes(_)
SortNotes(S) ==
    IF S = {} THEN <<>>
    ELSE LET x == CHOOSE x \in S : \A y \in S : FilenameBefore(x.fname, y.fname)
         IN <<x>> \o SortNotes(S \ {x})

\* part_007:961-975  getNotes(book): the notes of join(MNOTE_HOME, book), sorted
getNotes(s, book) ==
    IF Relative(book) \notin s.dirs THEN <<>>
    ELSE SortNotes({x \in s.files : x.dir = Relative(book)})

\* part_007:986, 1010  index < 1 || index > notes.length: false when index is NaN
InvalidIndex(index, n) == index # NaN /\ (index < 1 \/ index > n)

\* part_007:984-999  deleteNote(book, index): notes[NaN - 1] is undefined, and
\* reading its filename throws after getBookPath has run
deleteNote(s, book, index) ==
    LET ns == getNotes(s, book) IN
    IF InvalidIndex(index, Len(ns)) THEN s
    ELSE IF ~Accepts(book) THEN s
    ELSE IF index = NaN THEN getBookPath(s, book).st
    ELSE unindexNote(unlink(getBookPath(s, book).st, ns[index].dir, ns[index].fname),
                     book, ns[index].fname)

deleteNoteOut(s, book, index) ==
    LET ns == getNotes(s, book) IN
    IF InvalidIndex(index, Len(ns)) THEN Throws("Invalid note index")
    ELSE IF ~Accepts(book) THEN Throws("traversal")
    ELSE IF index = NaN THEN Throws("TypeError")
    ELSE Returned(ns[index].fname)

\* part_007:1008-1021  getNote(book, index): the same checks in the same order
getNote(s, book, index) ==
    LET ns == getNotes(s, book) IN
    IF InvalidIndex(index, Len(ns)) THEN [st |-> s, out |-> Throws("Invalid note index")]
    ELSE IF ~Accepts(book) THEN [st |-> s, out |-> Throws("traversal")]
    ELSE IF index = NaN THEN [st |-> getBookPath(s, book).st, out |-> Throws("TypeError")]
    ELSE [st |-> s, out |-> Returned(ns[index])]

\* part_007:1029-1038  updateNote(book, filename, content)
updateNote(s, book, f, c) ==
    IF ~Accepts(book) THEN s
    ELSE LET d == Relative(book) IN
         indexNote(writeFile(mkdirp(s, d), d, f, c), book, f, c, <<d, f>>)

\* part_007:1046-1056  moveNote(book, index, targetBook): getNote, addNote, deleteNote
moveNote(s, book, index, target) ==
    LET g == getNote(s, book, index) IN
    IF g.out.kind = "throws" THEN g.st
    ELSE IF ~Accepts(target) THEN g.st
    ELSE deleteNote(addNote(g.st, target, g.out.value.content), book, index)

\* part_007:1098-1099  book = $oldName OR book LIKE `${oldName}/%`
InBook(book, old) ==
    \/ book = old
    \/ old # <<>> /\ Len(book) > Len(old) /\ IsPrefixOf(old, book)

\* part_007:1105  the new book of a row: newName, or oldName/ replaced by newName/
NewBook(book, old, new) ==
    IF book = old THEN new ELSE new \o SubSeq(book, Len(old) + 1, Len(book))

\* part_007:1103-1117  the rows are updated one by one; a path some other row has
\* breaks the UNIQUE constraint
RECURSIVE updateRows(_, _, _, _)
updateRows(s, todo, old, new) ==
    IF todo = {} THEN [ok |-> TRUE, st |-> s]
    ELSE LET r == CHOOSE r \in todo : \A q \in todo : r.id <= q.id
             nb == NewBook(r.book, old, new)
             np == <<Relative(nb), r.filename>>
         IN IF \E q \in s.notes : q.id # r.id /\ q.path = np
            THEN [ok |-> FALSE, st |-> s]
            ELSE updateRows(
                   [s EXCEPT !.notes = {IF q.id = r.id
                                        THEN [q EXCEPT !.book = nb, !.path = np]
                                        ELSE q : q \in @},
                             !.fts = {q \in @ : q.rowid # r.id}
                                        \cup {FtsRow(r.id, nb, r.filename, np, r.content)}],
                   todo \ {r}, old, new)

\* part_007:1096-1119  updateBookInDb(oldName, newName), one transaction
updateBookInDb(s0, old, new) ==
    LET s == getDB(s0)
        t == updateRows(s, {r \in s.notes : InBook(r.book, old)}, old, new)
    IN IF t.ok THEN t.st ELSE [s EXCEPT !.err = TRUE]

\* where rename(oldPath, newPath) puts a directory
Renamed(d, od, nd) ==
    IF IsPrefixOf(od, d) THEN nd \o SubSeq(d, Len(od) + 1, Len(d)) ELSE d

\* rename(oldPath, newPath) fails: into itself, or no parent directory for newPath
RenameFails(s, od, nd) ==
    \/ IsPrefixOf(od, nd)
    \/ nd = <<>>
    \/ SubSeq(nd, 1, Len(nd) - 1) \notin s.dirs

\* part_007:1064-1087  renameBook(oldName, newName)
renameBook(s, old, new) ==
    IF ~Accepts(old) THEN s
    ELSE LET od == Relative(old)
             nd == Relative(new)
             s1 == mkdirp(s, od)
         IN IF nd \in s1.dirs \/ RenameFails(s1, od, nd) THEN s1
            ELSE updateBookInDb(
                   [s1 EXCEPT !.dirs = {Renamed(d, od, nd) : d \in @},
                              !.files = {[x EXCEPT !.dir = Renamed(x.dir, od, nd)] : x \in @}],
                   old, new)

\* part_007:1065-1082  renameBook throws: the old name is refused by getBookPath, the
\* new path exists, or rename() fails (the test of line 1067 comes after
\* getBookPath has made the directory, so it never fires)
renameBookThrows(s, old, new) ==
    \/ ~Accepts(old)
    \/ Relative(new) \in mkdirp(s, Relative(old)).dirs
    \/ RenameFails(mkdirp(s, Relative(old)), Relative(old), Relative(new))

\* the unicode61 tokenizer of fts5: runs of letters and digits, case folded
Fold(w) == IF w = "X" THEN "x" ELSE w
Range(q) == {q[i] : i \in 1..Len(q)}
DateTokens == {"2026", "11", "02"}
HomeTokens == {"home", "mnote"}
ContentTokens(c) == {Fold(w) : w \in Range(c)}
BookTokens(book) == Range(book) \cap Names
FilenameTokens(f) ==
    DateTokens \cup {f.slug, "md"} \cup (IF f.n > 0 THEN {ToString(f.n)} ELSE {})
PathTokens(path) == HomeTokens \cup Range(path[1]) \cup FilenameTokens(path[2])

\* part_007:1192-1196  notes_fts MATCH `${keyword}*`: a token of any column of the row
\* begins with the keyword (no word of this model is the beginning of another)
Matches(r, kw) ==
    Fold(kw) \in BookTokens(r.book) \cup FilenameTokens(r.filename)
                    \cup PathTokens(r.path) \cup ContentTokens(r.content)

\* part_007:1140-1211  findNotes(keyword, book): an empty book does not filter
findNotes(s, kw, book) ==
    {[book |-> r.book, filename |-> r.filename, content |-> r.content] :
        r \in {q \in s.fts : Matches(q, kw) /\ (book = <<>> \/ q.book = book)}}

\* part_007:938-954  getBooksRecursive(): every directory below the root
getBooksRecursive(s) == s.dirs \ {<<>>}

\* part_007:968-971  getNotes reads every entry whose name ends in '.md'; readFile
\* of an entry that is a directory throws (EISDIR)
endsWithMd(name) == name = "n.md"
getNotesThrows(s, book) ==
    \E d \in s.dirs : /\ Len(d) = Len(Relative(book)) + 1
                      /\ IsPrefixOf(Relative(book), d)
                      /\ endsWithMd(d[Len(d)])

\* part_007:943  entries.sort(localeCompare), parents before their children
NameRank(n) == CASE n = "a" -> 1 [] n = "b" -> 2 [] n = "n.md" -> 3
RECURSIVE BookBefore(_, _)
BookBefore(p, q) ==
    IF p = <<>> THEN TRUE
    ELSE IF q = <<>> THEN FALSE
    ELSE IF Head(p) # Head(q) THEN NameRank(Head(p)) < NameRank(Head(q))
    ELSE BookBefore(Tail(p), Tail(q))
RECURSIVE SortBooks(_)
SortBooks(B) ==
    IF B = {} THEN <<>>
    ELSE LET b == CHOOSE b \in B : \A c \in B : BookBefore(b, c)
         IN <<b>> \o SortBooks(B \ {b})

\* part_007:1231-1240  the notes of one book are indexed, in getNotes' order
RECURSIVE indexAll(_, _, _)
indexAll(s, book, ns) ==
    IF ns = <<>> THEN s
    ELSE indexAll(indexNote(s, book, ns[1].fname, ns[1].content, <<Relative(book), ns[1].fname>>),
                  book, Tail(ns))

\* part_007:1228-1241  book after book; a getNotes that throws ends rebuildDB there
RECURSIVE rebuildFrom(_, _)
rebuildFrom(s, books) ==
    IF books = <<>> THEN s
    ELSE IF getNotesThrows(s, Head(books)) THEN s
    ELSE rebuildFrom(indexAll(s, Head(books), getNotes(s, Head(books))), Tail(books))

\* part_007:1216-1243  rebuildDB(): both tables and the id sequence are cleared,
\* then every note of every book of getBooksRecursive is indexed
rebuildDB(s) ==
    rebuildFrom([s EXCEPT !.notes = {}, !.fts = {}, !.nextId = 1, !.db = TRUE],
                SortBooks(s.dirs \ {<<>>}))

\* part_007:1141-1142  findNotes rebuilds when mnote.db does not exist
NeedsRebuild_Never(s) == FALSE
NeedsRebuild(s) == ~s.db

\* part_007:1140-1152, 1204-1210  findNotes(keyword, book): the store it leaves and
\* the rows it returns; a rebuild that throws gives no rows
findNotesHeal(s, kw, book) ==
    IF NeedsRebuild(s)
    THEN IF \E b \in getBooksRecursive(s) : getNotesThrows(s, b)
         THEN [st |-> rebuildDB(s), out |-> {}]
         ELSE [st |-> rebuildDB(s), out |-> findNotes(rebuildDB(s), kw, book)]
    ELSE [st |-> getDB(s), out |-> findNotes(s, kw, book)]

\* part_007:1261-1301  checkDB(): the keys `${book}/${filename}` of both sides
DbKeys(s) == {[book |-> r.book, filename |-> r.filename] : r \in s.notes}
DiskKeys(s) ==
    {[book |-> x.dir, filename |-> x.fname] :
        x \in {y \in s.files : y.dir \in getBooksRecursive(s)}}
checkDB(s) ==
    IF \E book \in getBooksRecursive(s) : getNotesThrows(s, book) THEN "throws"
    ELSE IF DiskKeys(s) = DbKeys(s) THEN "consistent" ELSE "inconsistent"

\* part_007:1293  status
Status_Consistent(inDB, onDisk) == "consistent"
Status(inDB, onDisk) ==
    IF inDB = {} /\ onDisk = {} THEN "consistent" ELSE "inconsistent"

\* part_007:1270-1299  the report of checkDB(): the keys of the notes of every book
\* that dbSet lacks, and the keys of the rows that diskSet lacks
checkDBReport(s) ==
    LET dbSet == DbKeys(s)
        diskSet == UNION {{[book |-> book, filename |-> n.fname] :
                              n \in Range(getNotes(s, book))} : book \in getBooksRecursive(s)}
    IN [status |-> Status(diskSet \ dbSet, dbSet \ diskSet),
        missingInDB |-> diskSet \ dbSet,
        missingOnDisk |-> dbSet \ diskSet]

\* an index update that throws inside its transaction (the database is busy or
\* cannot be written): t is the store the call leaves when the update succeeds,
\* s the store before the call; the tables stay as they were
IndexThrows_Undone(s, t) == [s EXCEPT !.err = TRUE]
IndexThrows(s, t) ==
    [t EXCEPT !.notes = s.notes, !.fts = s.fts, !.nextId = s.nextId, !.err = TRUE]

(***************************************************************************)
(* SpecStore: one process calls the store on a store that starts empty     *)
(* (tests/db_integration.spec.ts).                                         *)
(***************************************************************************)
\* depth of the directory tree renameBook may build
MaxDepth == 2
\* number of calls of the store in one run
MaxStoreCalls == 3

InitStore ==
    /\ InitActors
    /\ now = 0
    /\ alive = [p \in AllPids |-> p \in Pids]
    /\ pidOf = DistinctPids
    /\ lockFile = NoFile

\* a call that leaves the store as t and whose outcome is r
Call(t, r) ==
    /\ storeCalls < MaxStoreCalls
    /\ storeCalls' = storeCalls + 1
    /\ dirs' = t.dirs
    /\ files' = t.files
    /\ notes' = t.notes
    /\ notes_fts' = t.fts
    /\ nextId' = t.nextId
    /\ indexError' = t.err
    /\ dbFile' = t.db
    /\ config' = config
    /\ conflicted' = conflicted
    /\ ret' = r
    /\ UNCHANGED <<lockVars, passVars>>

SetStore(t) == Call(t, ret)

\* the identifiers that name a book by its path below the root: "a", "b", "a/b"
CanonicalBooks == {b \in BookIds : Accepts(b) /\ Relative(b) = b /\ b # <<>>}

AddNoteIn(B) ==
    \E book \in B, c \in Contents :
        LET t == addNote(Store, book, c) IN
        /\ t.nextId <= MaxIds + 1
        /\ SetStore(t)

UpdateNoteIn(B) ==
    \E book \in B, f \in {x.fname : x \in files}, c \in Contents :
        LET t == updateNote(Store, book, f, c) IN
        /\ t.nextId <= MaxIds + 1
        /\ SetStore(t)

DeleteNoteIn(B) ==
    \E book \in B, index \in 1..MaxIds :
        SetStore(deleteNote(Store, book, index))

AddNote == AddNoteIn(BookIds)
UpdateNote == UpdateNoteIn(BookIds)
DeleteNote == DeleteNoteIn(BookIds)

MoveNote ==
    \E book \in BookIds, index \in 1..MaxIds, target \in BookIds :
        LET t == moveNote(Store, book, index, target) IN
        /\ t.nextId <= MaxIds + 1
        /\ SetStore(t)

\* the new name is one getBookPath accepts
RenameBook ==
    \E old \in BookIds, new \in {b \in BookIds : Accepts(b)} :
        LET t == renameBook(Store, old, new) IN
        /\ \A d \in t.dirs : Len(d) <= MaxDepth
        /\ SetStore(t)

NextStore ==
    \/ AddNote
    \/ UpdateNote
    \/ DeleteNote
    \/ MoveNote
    \/ RenameBook

SpecStore == InitStore /\ [][NextStore]_vars

\* C3: when no index update has failed, checkDB reports 'consistent' and the index
\* holds one record per (book, filename) key.
C3_StoreIndexConsistent ==
    ~indexError =>
        /\ checkDB(Store) = "consistent"
        /\ \A r, q \in notes : (r.book = q.book /\ r.filename = q.filename) => r = q

\* the step is the call renameBook(old, new)
RenameStep(old, new) == Store' = renameBook(Store, old, new)
NewNames == {b \in BookIds : Accepts(b)}

\* C19: when renameBook(old, new) has succeeded on a consistent store, every record
\* whose book was old or below old has the new book and the path of its file there,
\* no record is left under old, the records of the other books are unchanged, and
\* checkDB reports 'consistent'.
C19_RenamePropagates ==
    [][ \A old \in BookIds, new \in NewNames :
          ( /\ RenameStep(old, new)
            /\ ~renameBookThrows(Store, old, new)
            /\ ~indexError /\ checkDB(Store) = "consistent" )
          => /\ \A r \in notes : InBook(r.book, old) =>
                   \E q \in notes' : /\ q.id = r.id
                                      /\ q.book = NewBook(r.book, old, new)
                                      /\ q.path = <<Relative(q.book), q.filename>>
             /\ ~\E q \in notes' : InBook(q.book, old)
             /\ \A r \in notes : ~InBook(r.book, old) => r \in notes'
             /\ checkDB(Store)' = "consistent"
      ]_vars

\* C20: renameBook(old, new) called when book old does not exist, or when book new
\* exists, throws and leaves the directories, the files and the index as they were.
C20_RenameFailsClean ==
    [][ \A old \in BookIds, new \in NewNames :
          ( /\ RenameStep(old, new)
            /\ (Relative(old) \notin dirs \/ Relative(new) \in dirs) )
          => /\ renameBookThrows(Store, old, new)
             /\ Store' = Store
      ]_vars

(***************************************************************************)
(* SpecRebuild: rebuildDB on a store whose disk and index are anything:    *)
(* books a, b and a/n.md, each with or without a note, and an index that   *)
(* is empty, right or drifted (tests/db_integration.spec.ts 58-73).        *)
(***************************************************************************)
RebuildBooks == {<<"a">>, <<"b">>, <<"a", "n.md">>}
NoteX == Filename("x", 0)
\* what a directory holds: no note, or the note with one of two contents
DirNotes == {<<>>} \cup {<<c>> : c \in Contents \ {<<>>}}
\* the index rows there may be for the note of a book
RowsOf(book) == {[book |-> book, filename |-> NoteX, path |-> <<book, NoteX>>, content |-> c] :
                    c \in Contents \ {<<>>}}
\* ids in the order of the books
WithIds(R) ==
    {[id |-> Cardinality({q \in R : BookBefore(q.book, r.book)}), book |-> r.book,
      filename |-> r.filename, path |-> r.path, content |-> r.content] : r \in R}

InitRebuild ==
    /\ InitProcs
    /\ now = 0
    /\ alive = [p \in AllPids |-> p \in Pids]
    /\ pidOf = DistinctPids
    /\ lockFile = NoFile
    /\ \E D \in SUBSET RebuildBooks :
         /\ \A d \in D : SubSeq(d, 1, Len(d) - 1) \in D \cup {<<>>}
         /\ dirs = D \cup {<<>>}
    /\ \E h \in [dirs -> DirNotes] :
         files = {[dir |-> d, fname |-> NoteX, content |-> h[d][1]] :
                     d \in {e \in dirs : h[e] # <<>>}}
    /\ \E R \in SUBSET (RowsOf(<<"a">>) \cup RowsOf(<<"b">>)) :
         /\ \A r, q \in R : r.book = q.book => r = q
         /\ notes = WithIds(R)
    /\ notes_fts = {FtsRow(r.id, r.book, r.filename, r.path, r.content) : r \in notes}
    /\ nextId = Cardinality(notes) + 1
    /\ indexError = FALSE
    /\ storeCalls = 0
    /\ ret = NoRet
    /\ dbFile \in {TRUE, notes # {}}
    /\ config = EmptyConfig
    /\ conflicted = FALSE

\* `mnote database rebuild`
Rebuild == SetStore(rebuildDB(Store))

NextRebuild == Rebuild

SpecRebuild == InitRebuild /\ [][NextRebuild]_vars

\* the note files of the books getBooksRecursive lists
ReachableNotes == {x \in files : x.dir \in getBooksRecursive(Store)}

\* C18: after rebuildDB the index holds one record for each note file of each book,
\* with the content of the file, and no other record; checkDB reports 'consistent';
\* a rebuildDB that follows a rebuildDB leaves the same records.
C18_RebuildRestores ==
    [][ storeCalls' > storeCalls
          => /\ \A x \in ReachableNotes' :
                   \E r \in notes' :
                       /\ r.book = x.dir /\ r.filename = x.fname /\ r.content = x.content
                       /\ \A q \in notes' : (q.book = r.book /\ q.filename = r.filename) => q = r
             /\ \A r \in notes' : \E x \in ReachableNotes' : r.book = x.dir /\ r.filename = x.fname
             /\ checkDB(Store)' = "consistent"
             /\ storeCalls >= 1 => (notes' = notes /\ Cardinality(notes') = Cardinality(notes))
      ]_vars

(***************************************************************************)
(* SpecNotes: addNote, updateNote and deleteNote on books named by their   *)
(* path, as tests/db_integration.spec.ts 21-56 calls them.                 *)
(***************************************************************************)
NotesAdd == AddNoteIn(CanonicalBooks)
NotesUpdate == UpdateNoteIn(CanonicalBooks)
NotesDelete == DeleteNoteIn(CanonicalBooks)

NextNotes ==
    \/ NotesAdd
    \/ NotesUpdate
    \/ NotesDelete

SpecNotes == InitStore /\ [][NextNotes]_vars

\* the notes findNotes returns, and the notes on disk whose content has the keyword
Found(kw, book) == {<<Relative(r.book), r.filename>> : r \in findNotes(Store, kw, book)}
Expected(kw, book) ==
    {<<x.dir, x.fname>> :
        x \in {y \in files : /\ Fold(kw) \in ContentTokens(y.content)
                             /\ (book = <<>> \/ y.dir = Relative(book))}}

\* C4: findNotes(keyword, book) returns exactly the notes that are on disk, whose
\* current content contains the keyword and that are in the book, when one is given.
C4_FindCoherent ==
    \A kw \in Keywords, book \in CanonicalBooks \cup {<<>>} :
        Found(kw, book) = Expected(kw, book)

(***************************************************************************)
(* SpecBooks: one process calls getBookPath, addNote, getNote and          *)
(* deleteNote on a store that starts empty, with the book strings and the  *)
(* indexes a caller may pass (tests/store.spec.ts, index.ts 87-118).       *)
(***************************************************************************)
\* "a", "b", "a/b", "./a", "", ".." and "..a"
PathBooks == BookIds \cup {<<"..a">>}
\* parseInt of the argument: a position, one below, one above, or NaN
Indexes == 0..(MaxIds + 1) \cup {NaN}

GetBookPath ==
    \E book \in PathBooks :
        LET g == getBookPath(Store, book) IN
        Call(g.st, [op |-> "getBookPath", book |-> book, out |-> g.out])

BooksAddIn(B) ==
    \E book \in B, c \in Contents :
        LET t == addNote(Store, book, c) IN
        /\ t.nextId <= MaxIds + 1
        /\ Call(t, [op |-> "addNote", book |-> book, content |-> c,
                    out |-> IF Accepts(book) THEN Returned("none") ELSE Throws("traversal")])

BooksGet ==
    \E book \in PathBooks, index \in Indexes :
        LET g == getNote(Store, book, index) IN
        Call(g.st, [op |-> "getNote", book |-> book, index |-> index, out |-> g.out])

BooksDeleteIn(B, I) ==
    \E book \in B, index \in I :
        Call(deleteNote(Store, book, index),
             [op |-> "deleteNote", book |-> book, index |-> index,
              out |-> deleteNoteOut(Store, book, index)])

BooksUpdateIn(B) ==
    \E book \in B, f \in {x.fname : x \in files}, c \in Contents :
        LET t == updateNote(Store, book, f, c) IN
        /\ t.nextId <= MaxIds + 1
        /\ Call(t, [op |-> "updateNote", book |-> book, filename |-> f, content |-> c,
                    out |-> IF Accepts(book) THEN Returned("none") ELSE Throws("traversal")])

BooksAdd == BooksAddIn(PathBooks)
BooksDelete == BooksDeleteIn(PathBooks, Indexes)

NextBooks ==
    \/ GetBookPath
    \/ BooksAdd
    \/ BooksGet
    \/ BooksDelete

SpecBooks == InitStore /\ [][NextBooks]_vars

\* the step is the call op of the store
Called(o) == storeCalls' = storeCalls + 1 /\ ret'.op = o

\* the resolved path of the book is the root or below it
Inside(book) == Relative(book) = <<>> \/ Relative(book)[1] # ".."

\* C21: getBookPath(book) throws the traversal error and makes no directory exactly
\* when the resolved path of book is outside the root; for every book that resolves
\* inside the root it returns that path and the directory exists afterwards.
C21_TraversalExact ==
    [][ Called("getBookPath") =>
          IF Inside(ret'.book)
          THEN /\ ret'.out = Returned(Relative(ret'.book))
               /\ Relative(ret'.book) \in dirs'
          ELSE /\ ret'.out = Throws("traversal")
               /\ dirs' = dirs
      ]_vars

(***************************************************************************)
(* SpecAdd: notes are added to and deleted from the books "a" (also named  *)
(* "./a") and "b"; ".." is refused (tests/store.spec.ts 45-111).           *)
(***************************************************************************)
AddBooks == {<<"a">>, <<".", "a">>, <<"b">>, <<"..">>}

AddedNote == BooksAddIn(AddBooks)
RemovedNote == BooksDeleteIn(AddBooks, 1..MaxIds)

NextAdd ==
    \/ AddedNote
    \/ RemovedNote

SpecAdd == InitStore /\ [][NextAdd]_vars

\* addNote(book, c) has returned in this step
Added(book, c) ==
    /\ Called("addNote")
    /\ ret'.book = book /\ ret'.content = c
    /\ ret'.out.kind = "returns"

NotesIn(F, d) == {x \in F : x.dir = d}
\* the book holds slug.md, slug-1.md .. slug-(k-1).md and no other file of that slug
HasFirst(F, d, slug, k) ==
    {x.fname : x \in {y \in NotesIn(F, d) : y.fname.slug = slug}}
        = {Filename(slug, n) : n \in 0..(k - 1)}

C24_IndexChecked ==
    [][ \A book \in PathBooks, index \in Indexes :
          ( /\ Called("getNote") \/ Called("deleteNote")
            /\ ret'.book = book /\ ret'.index = index )
          => IF index # NaN /\ 1 <= index /\ index <= Len(getNotes(Store, book))
             THEN IF ret'.op = "getNote"
                  THEN /\ ret'.out = Returned(getNotes(Store, book)[index])
                       /\ files' = files
                  ELSE /\ ret'.out = Returned(getNotes(Store, book)[index].fname)
                       /\ files' = files \ {getNotes(Store, book)[index]}
             ELSE /\ ret'.out.kind = "throws"
                  /\ files' = files /\ dirs' = dirs
                  /\ notes' = notes /\ notes_fts' = notes_fts
      ]_vars

(***************************************************************************)
(* SpecMove: notes are added, rewritten and moved between the books "a"    *)
(* and "b", and from a book to itself (tests/store.spec.ts 193-207,        *)
(* tests/db_integration.spec.ts 102-122).                                  *)
(***************************************************************************)
MoveBooks == {<<"a">>, <<"b">>, <<"..">>}

MoveAdd == BooksAddIn(MoveBooks)
MoveUpdate == BooksUpdateIn(MoveBooks)

BooksMove ==
    \E book \in MoveBooks, index \in Indexes, target \in MoveBooks :
        LET t == moveNote(Store, book, index, target) IN
        /\ t.nextId <= MaxIds + 1
        /\ Call(t, [op |-> "moveNote", book |-> book, index |-> index, target |-> target,
                    out |-> IF getNote(Store, book, index).out.kind = "throws"
                            THEN getNote(Store, book, index).out
                            ELSE IF Accepts(target) THEN Returned("none")
                            ELSE Throws("traversal")])

NextMove ==
    \/ MoveAdd
    \/ MoveUpdate
    \/ BooksMove

SpecMove == InitStore /\ [][NextMove]_vars

\* moveNote(book, index, target) has succeeded in this step
Moved(book, index, target) ==
    /\ Called("moveNote")
    /\ ret'.book = book /\ ret'.index = index /\ ret'.target = target
    /\ ret'.out.kind = "returns"

Indexed(N, x) == \E r \in N : r.book = x.dir /\ r.filename = x.fname /\ r.content = x.content

\* C25: after moveNote(book, i, target) succeeds, target = book included, the i-th
\* note of book is gone from its old filename, target holds one new note with that
\* note's content, and every other note of both books is unchanged and still indexed.
C25_MoveFrame ==
    [][ \A book \in MoveBooks, index \in 1..MaxIds, target \in MoveBooks, old \in files :
          (Moved(book, index, target) /\ old = getNotes(Store, book)[index]) =>
            /\ ~\E y \in files' : y.dir = old.dir /\ y.fname = old.fname
            /\ \E x \in files' \ files :
                 /\ x.dir = Relative(target) /\ x.content = old.content
                 /\ files' \ files = {x}
            /\ \A y \in files \ {old} :
                 /\ y \in files'
                 /\ Indexed(notes, y) => Indexed(notes', y)
      ]_vars

(***************************************************************************)
(* SpecFault: addNote, updateNote, deleteNote and renameBook on the books  *)
(* "a" and "b"; the index update of any call may throw                     *)
(* (part_007:923-929, 1033-1037, 993-997, 1081-1087).                      *)
(***************************************************************************)
FaultBooks == {<<"a">>, <<"b">>}
FaultContents == {<<"x">>, <<"X", "y">>}

\* the store a call leaves: t, or t with the index as before when the update throws
Faulty(t, fault) == IF fault THEN IndexThrows(Store, t) ELSE t

FaultAdd ==
    \E book \in FaultBooks, c \in FaultContents, fault \in BOOLEAN :
        LET t == Faulty(addNote(Store, book, c), fault) IN
        /\ t.nextId <= MaxIds + 1
        /\ Call(t, [op |-> "addNote", book |-> book, content |-> c, fault |-> fault,
                    out |-> Returned("none")])

FaultUpdate ==
    \E x \in files, c \in FaultContents, fault \in BOOLEAN :
        LET t == Faulty(updateNote(Store, x.dir, x.fname, c), fault) IN
        /\ t.nextId <= MaxIds + 1
        /\ Call(t, [op |-> "updateNote", book |-> x.dir, filename |-> x.fname,
                    content |-> c, fault |-> fault, out |-> Returned("none")])

FaultDelete ==
    \E book \in FaultBooks, index \in 1..MaxIds, fault \in BOOLEAN :
        /\ index <= Len(getNotes(Store, book))
        /\ Call(Faulty(deleteNote(Store, book, index), fault),
                [op |-> "deleteNote", book |-> book, index |-> index, fault |-> fault,
                 out |-> deleteNoteOut(Store, book, index)])

FaultRename ==
    \E old \in FaultBooks, new \in FaultBooks, fault \in BOOLEAN :
        /\ ~renameBookThrows(Store, old, new)
        /\ Call(Faulty(renameBook(Store, old, new), fault),
                [op |-> "renameBook", book |-> old, new |-> new, fault |-> fault,
                 out |-> Returned("none")])

NextFault ==
    \/ FaultAdd
    \/ FaultUpdate
    \/ FaultDelete
    \/ FaultRename

SpecFault == InitStore /\ [][NextFault]_vars

\* the index update of this step's call has thrown
Faulted == storeCalls' = storeCalls + 1 /\ ret'.fault

\* what the call has changed on disk
KeyOf(x) == [book |-> x.dir, filename |-> x.fname]
FilesNew == files' \ files
KeysGone == {KeyOf(x) : x \in files} \ {KeyOf(x) : x \in files'}
KeysNew == {KeyOf(x) : x \in files'} \ {KeyOf(x) : x \in files}

IndexBooks == {<<"a">>, <<"a", "b">>}

InitIndex ==
    /\ InitProcs
    /\ now = 0
    /\ alive = [p \in AllPids |-> p \in Pids]
    /\ pidOf = DistinctPids
    /\ lockFile = NoFile
    /\ \E D \in SUBSET IndexBooks :
         /\ \A d \in D : SubSeq(d, 1, Len(d) - 1) \in D \cup {<<>>}
         /\ dirs = D \cup {<<>>}
    /\ \E h \in [dirs -> DirNotes] :
         files = {[dir |-> d, fname |-> NoteX, content |-> h[d][1]] :
                     d \in {e \in dirs : h[e] # <<>>}}
    /\ \E R \in SUBSET (UNION {RowsOf(b) : b \in IndexBooks}) :
         /\ \A r, q \in R : r.book = q.book => r = q
         /\ notes = WithIds(R)
    /\ notes_fts = {FtsRow(r.id, r.book, r.filename, r.path, r.content) : r \in notes}
    /\ nextId = Cardinality(notes) + 1
    /\ indexError = FALSE
    /\ storeCalls = 0
    /\ ret = NoRet
    /\ dbFile \in {TRUE, notes # {}}
    /\ config = EmptyConfig
    /\ conflicted = FALSE

\* `mnote database check`: getDB(), then the report
CheckDB ==
    Call(getDB(Store), [op |-> "checkDB", out |-> checkDBReport(Store)])

FindNotes ==
    \E kw \in Keywords, book \in IndexBooks \cup {<<>>} :
        LET g == findNotesHeal(Store, kw, book) IN
        Call(g.st, [op |-> "findNotes", kw |-> kw, book |-> book,
                    healed |-> ~dbFile, out |-> g.out])

RebuildDB == Call(rebuildDB(Store), [op |-> "rebuildDB"])

\* unlink(<root>/mnote.db)
RemoveDb ==
    /\ dbFile
    /\ Call([Store EXCEPT !.notes = {}, !.fts = {}, !.nextId = 1, !.db = FALSE],
            [op |-> "unlink"])

NextIndex ==
    \/ CheckDB
    \/ FindNotes
    \/ RebuildDB
    \/ RemoveDb

SpecIndex == InitIndex /\ [][NextIndex]_vars

\* C27: checkDB leaves the directories, the note files, the existence of mnote.db and
\* the rows of the index as they were, also when mnote.db is missing.
C27_CheckReadOnly ==
    [][ Called("checkDB") =>
          /\ dirs' = dirs /\ files' = files
          /\ dbFile' = dbFile
          /\ notes' = notes /\ notes_fts' = notes_fts
      ]_vars

\* the keys of the notes of the books on disk, and the keys of the index rows
OnDisk == {[book |-> x.dir, filename |-> x.fname] : x \in {y \in files : y.dir # <<>>}}
InIndex == {[book |-> r.book, filename |-> r.filename] : r \in notes}

Tags == {<<"r">>, <<"R">>, <<"r", "e">>, <<"e", "r">>}
TagBooks == {<<"a">>, <<"b">>}
\* the frontmatter `tags:` of a note: a single value, or a list of one or two tags
Frontmatters ==
    {[single |-> TRUE, tags |-> <<t>>] : t \in Tags}
        \cup {[single |-> FALSE, tags |-> <<t>>] : t \in Tags}
        \cup {[single |-> FALSE, tags |-> <<t, u>>] : t \in Tags, u \in Tags}

\* part_007:729-732  ',' + tags.join(',') + ','
RECURSIVE joinTags(_)
joinTags(T) == IF T = <<>> THEN <<>> ELSE T[1] \o <<",">> \o joinTags(Tail(T))
tagsStr(T) == <<",">> \o joinTags(T)

\* LIKE of SQLite compares ASCII letters without regard to case
FoldChar(ch) == IF ch = "R" THEN "r" ELSE ch
FoldStr(w) == [i \in 1..Len(w) |-> FoldChar(w[i])]

\* part_007:1157, 1180  tags LIKE `%,${tag},%`
Like(str, tag) ==
    LET pat == <<",">> \o tag \o <<",">> IN
    \E i \in 1..(Len(str) - Len(pat) + 1) :
        FoldStr(SubSeq(str, i, i + Len(pat) - 1)) = FoldStr(pat)

\* part_007:857-930, 720-754  addNote(book, 'x', { tags }): the file with its
\* frontmatter, and the row with its tags column
addTagged(s, book, fm) ==
    LET d == Relative(book)
        s1 == mkdirp(s, d)
        f == FreeFilename(s1, d, "x")
        c == [fm |-> fm, body |-> <<"x">>]
        s2 == getDB(writeFile(s1, d, f, c))
    IN [s2 EXCEPT !.notes = @ \cup {[id |-> s.nextId, book |-> book, filename |-> f,
                                     path |-> <<d, f>>, content |-> c,
                                     tags |-> tagsStr(fm.tags)]},
                  !.fts = @ \cup {FtsRow(s.nextId, book, f, <<d, f>>, c)},
                  !.nextId = @ + 1]

\* ORDER BY filename
RECURSIVE SortRows(_)
SortRows(S) ==
    IF S = {} THEN <<>>
    ELSE LET r == CHOOSE r \in S : \A q \in S : FilenameBefore(r.filename, q.filename)
         IN <<r>> \o SortRows(S \ {r})

\* part_007:1176-1188  findNotes('', book, tag): SELECT book, filename, content
findByTag(s, tag, book) ==
    LET rows == SortRows({r \in s.notes : Like(r.tags, tag) /\ (book = <<>> \/ r.book = book)})
    IN [i \in 1..Len(rows) |-> [book |-> rows[i].book, filename |-> rows[i].filename,
                                content |-> rows[i].content]]

TagAdd ==
    \E book \in TagBooks, fm \in Frontmatters :
        LET t == addTagged(Store, book, fm) IN
        /\ t.nextId <= MaxIds + 1
        /\ Call(t, [op |-> "addNote", book |-> book, tags |-> fm, out |-> Returned("none")])

\* a search on a root that has its index
TagFind ==
    \E tag \in Tags, book \in TagBooks \cup {<<>>} :
        /\ dbFile
        /\ Call(Store, [op |-> "findNotes", tag |-> tag, book |-> book,
                        out |-> findByTag(Store, tag, book)])

NextTags ==
    \/ TagAdd
    \/ TagFind

SpecTags == InitStore /\ [][NextTags]_vars

\* the indexed notes whose frontmatter tag list has an element equal to the tag
Tagged(tag, book) ==
    {[book |-> r.book, filename |-> r.filename, content |-> r.content] :
        r \in {q \in notes : /\ \E i \in 1..Len(q.content.fm.tags) : q.content.fm.tags[i] = tag
                              /\ (book = <<>> \/ q.book = book)}}

\* C30: findNotes with tag t and no keyword returns exactly the indexed notes whose
\* tag list contains an element equal to t (no prefix, substring or case variant of
\* it), of the given book when one is given, ordered by filename.
C30_TagExact ==
    [][ \A tag \in Tags, book \in TagBooks \cup {<<>>} :
          (Called("findNotes") /\ ret'.tag = tag /\ ret'.book = book) =>
            /\ Range(ret'.out) = Tagged(tag, book)
            /\ Len(ret'.out) = Cardinality(Tagged(tag, book))
            /\ \A i, j \in 1..Len(ret'.out) :
                 i < j => FilenameBefore(ret'.out[i].filename, ret'.out[j].filename)
      ]_vars

(***************************************************************************)
(* SpecTitle: addNote(book, content, { title }) names the file, for each   *)
(* title and content of a few characters (part_007 857-882, 628-638).      *)
(* A text is the sequence of its characters, a content the sequence of its *)
(* lines (content.split('\n')).                                            *)
(***************************************************************************)
\* length of the first line of a content
MaxLineLen == 3

TitleChars == {" ", "#", "-", "A", "b"}
Untitled == <<"u", "n", "t", "i", "t", "l", "e", "d">>
\* options.title is absent
Undefined == <<"undefined">>

TitleLines == UNION {[1..n -> TitleChars] : n \in 0..MaxLineLen}
\* the lines after the first: none, an empty one, or the header "# A"
RestLines == {<<>>, <<"#", " ", "A">>}
TitleContents ==
    {<<l>> : l \in TitleLines} \cup {<<l, m>> : l \in TitleLines, m \in RestLines}
\* no title, the empty title, "A b" and "#"
Titles == {Undefined, <<>>, <<"A", " ", "b">>, <<"#">>}

\* String.prototype.trim()
RECURSIVE trimStart(_)
trimStart(w) == IF w # <<>> /\ Head(w) = " " THEN trimStart(Tail(w)) ELSE w
RECURSIVE trimEnd(_)
trimEnd(w) ==
    IF w # <<>> /\ w[Len(w)] = " " THEN trimEnd(SubSeq(w, 1, Len(w) - 1)) ELSE w
trim(w) == trimEnd(trimStart(w))

\* part_007:866  firstLine.replace(/^[\s#\-\*]+/, '')
RECURSIVE stripMarkup(_)
stripMarkup(w) ==
    IF w # <<>> /\ Head(w) \in {" ", "#", "-", "*"} THEN stripMarkup(Tail(w)) ELSE w

\* part_007:860-872  finalTitle: options.title when it is not empty, else the first
\* line without its leading markup, else 'untitled'
finalTitle(title, c) ==
    IF title # Undefined /\ title # <<>> THEN title
    ELSE LET firstLine == trim(c[1])
             cleanLine == trim(stripMarkup(firstLine))
         IN IF Len(cleanLine) > 0 THEN cleanLine ELSE Untitled

\* part_007:632  toLowerCase()
toLowerCase(w) == [i \in 1..Len(w) |-> IF w[i] = "A" THEN "a" ELSE w[i]]
\* part_007:634  replace(/[^a-z0-9\s-]/g, '')
RECURSIVE removeOther(_)
removeOther(w) ==
    IF w = <<>> THEN <<>>
    ELSE IF Head(w) = "#" THEN removeOther(Tail(w))
    ELSE <<Head(w)>> \o removeOther(Tail(w))
\* part_007:635-636  replace(/\s+/g, '-') and replace(/-+/g, '-')
RECURSIVE hyphenate(_)
hyphenate(w) ==
    IF w = <<>> THEN <<>>
    ELSE IF Head(w) \in {" ", "-"}
    THEN IF Len(w) > 1 /\ w[2] \in {" ", "-"} THEN hyphenate(Tail(w))
         ELSE <<"-">> \o hyphenate(Tail(w))
    ELSE <<Head(w)>> \o hyphenate(Tail(w))
\* part_007:637  replace(/^-+|-+$/g, '')
trimHyphens(w) ==
    LET a == IF w # <<>> /\ Head(w) = "-" THEN Tail(w) ELSE w
    IN IF a # <<>> /\ a[Len(a)] = "-" THEN SubSeq(a, 1, Len(a) - 1) ELSE a

\* part_007:628-638  slugify(text) of a text without diacritics
slugifyText(w) == trimHyphens(hyphenate(removeOther(trim(toLowerCase(w)))))

\* part_007:857-930  addNote(book, content, { title }) without template and tags
addNoteTitled(s, book, c, title) ==
    LET d == Relative(book)
        s1 == mkdirp(s, d)
        f == FreeFilename(s1, d, slugifyText(finalTitle(title, c)))
    IN indexNote(writeFile(s1, d, f, c), book, f, c, <<d, f>>)

\* the title and the content of the notes that will be added
InitTitle ==
    /\ InitProcs
    /\ now = 0
    /\ alive = [p \in AllPids |-> p \in Pids]
    /\ pidOf = DistinctPids
    /\ lockFile = NoFile
    /\ dirs = {<<>>}
    /\ files = {}
    /\ notes = {}
    /\ notes_fts = {}
    /\ nextId = 1
    /\ indexError = FALSE
    /\ storeCalls = 0
    /\ dbFile = FALSE
    /\ config = EmptyConfig
    /\ conflicted = FALSE
    /\ \E title \in Titles, c \in TitleContents :
         ret = [op |-> "none", title |-> title, content |-> c]

\* one more note of that title and content in book "a"
TitleAdd ==
    Call(addNoteTitled(Store, <<"a">>, ret.content, ret.title),
         [ret EXCEPT !.op = "addNote"])

NextTitle == TitleAdd

SpecTitle == InitTitle /\ [][NextTitle]_vars

\* the first line of the content that is not empty
RECURSIVE firstNonEmpty(_)
firstNonEmpty(c) ==
    IF c = <<>> THEN <<>>
    ELSE IF trim(Head(c)) # <<>> THEN Head(c)
    ELSE firstNonEmpty(Tail(c))

\* the title the file is to be named after
NamedAfter(title, c) ==
    IF title # Undefined /\ title # <<>> THEN title
    ELSE IF trim(stripMarkup(firstNonEmpty(c))) # <<>>
    THEN trim(stripMarkup(firstNonEmpty(c)))
    ELSE Untitled

\* C31: addNote names the file after options.title when it is given, otherwise after
\* the first non-empty line of the content without its leading markup characters,
\* otherwise after 'untitled'; the filename is the date followed by the slug of that
\* title (and the collision counter, when the name is taken).
C31_TitleDerivation ==
    [][ Called("addNote") =>
          \E x \in files' \ files :
              /\ files' = files \cup {x}
              /\ x.content = ret'.content
              /\ x.fname.slug = slugifyText(NamedAfter(ret'.title, ret'.content))
      ]_vars

(***************************************************************************)
(* SpecAuto: `mnote config set`, and the add, edit and delete commands of  *)
(* process a1, each followed by autoSync() (index.ts 54, 114, 166;         *)
(* sync.ts 31-57; config.ts 65-107).  config.json holds, for each key path *)
(* that has a value, the JSON text of that value.                          *)
(***************************************************************************)
\* the keys of README "Auto Sync", of the Configuration provider and of autoSync()
ConfigKeys == {<<"autosync">>, <<"autosync", "enabled">>, <<"autoSync", "enabled">>}
ConfigValues == {"true", "false"}
CommandOps == {"addNote", "updateNote", "deleteNote"}

IsProperPrefix(p, q) == Len(p) < Len(q) /\ SubSeq(q, 1, Len(p)) = p

\* config.ts:65-83  setConfig(keyPath, value): a value on the way is replaced by an
\* object, and the value at keyPath, object or not, by the parsed value
setConfig(cfg, keyPath, value) ==
    LET kept == {q \in DOMAIN cfg : /\ ~IsProperPrefix(q, keyPath)
                                    /\ ~IsProperPrefix(keyPath, q)
                                    /\ q # keyPath}
    IN [q \in kept \cup {keyPath} |-> IF q = keyPath THEN value ELSE cfg[q]]

\* config.ts:91-107  getConfig(keyPath): the value, or the error when there is none
getConfig(cfg, keyPath) ==
    IF keyPath \in DOMAIN cfg THEN Returned(cfg[keyPath])
    ELSE IF \E q \in DOMAIN cfg : IsProperPrefix(keyPath, q) THEN Returned("object")
    ELSE Throws("not found")

\* sync.ts:33-34  getConfig('autoSync.enabled') === true; the error is caught
autoSyncEnabled(cfg) == getConfig(cfg, <<"autoSync", "enabled">>) = Returned("true")

\* index.ts:330-340  mnote config set <key> <value>
ConfigSet ==
    /\ pc["a1"] = "idle" /\ ret.op \notin CommandOps
    /\ \E keyPath \in ConfigKeys, value \in ConfigValues :
         /\ config' = setConfig(config, keyPath, value)
         /\ config' # config
    /\ UNCHANGED <<lockVars, passVars, dirs, files, notes, notes_fts, nextId,
                   indexError, storeCalls, ret, dbFile, conflicted>>

\* index.ts:28-58  mnote add a x
AutoAdd ==
    /\ pc["a1"] = "idle" /\ ret.op \notin CommandOps
    /\ nextId <= MaxIds
    /\ Call(addNote(Store, <<"a">>, <<"x">>), [op |-> "addNote"])

\* index.ts:120-185  mnote edit a 1 -c y
AutoEdit ==
    /\ pc["a1"] = "idle" /\ ret.op \notin CommandOps
    /\ Len(getNotes(Store, <<"a">>)) >= 1
    /\ Call(updateNote(Store, <<"a">>, getNotes(Store, <<"a">>)[1].fname, <<"y">>),
            [op |-> "updateNote"])

\* index.ts:87-118  mnote delete a 1 -f
AutoDelete ==
    /\ pc["a1"] = "idle" /\ ret.op \notin CommandOps
    /\ Len(getNotes(Store, <<"a">>)) >= 1
    /\ Call(deleteNote(Store, <<"a">>, 1), [op |-> "deleteNote"])

\* sync.ts:31-39  autoSync() at the end of the command
AutoSyncHook ==
    /\ pc["a1"] = "idle" /\ ret.op \in CommandOps
    /\ ret' = [op |-> "autoSync", after |-> ret.op]
    /\ IF autoSyncEnabled(config)
       THEN /\ op' = [op EXCEPT !["a1"] = "autoSync"]
            /\ acquire("a1", TRUE, AutoSyncTimeoutMs)
            /\ UNCHANGED <<alive, pidOf, passVars>>
       ELSE UNCHANGED <<lockVars, passVars>>
    /\ UNCHANGED <<dirs, files, notes, notes_fts, nextId, indexError, storeCalls,
                   dbFile, config, conflicted>>

NextAuto ==
    \/ ConfigSet
    \/ AutoAdd
    \/ AutoEdit
    \/ AutoDelete
    \/ AutoSyncHook
    \/ QuickLockStep("a1")
    \/ AcquiredRet("a1")
    \/ PassStep("a1")
    \/ PassRet("a1")
    \/ ReleasedRet("a1")

SpecAuto == InitSync /\ [][NextAuto]_vars

\* autosync has been switched on the way the README or the key of the
\* Configuration provider says
EnabledAsDocumented ==
    \/ getConfig(config, <<"autosync">>) = Returned("true")
    \/ getConfig(config, <<"autosync", "enabled">>) = Returned("true")
\* no key holds true
NotEnabled == \A q \in DOMAIN config : config[q] # "true"

\* the step at which a command that succeeded calls autoSync()
HookRuns == ret.op \in CommandOps /\ ret'.op = "autoSync"

\* C32: once autosync is enabled as documented, the autoSync() of every successful
\* add, edit or delete command makes one sync attempt: it starts one acquire, as
\* operation autoSync; while autosync is not enabled it leaves the lock and the
\* sync state untouched.
C32_AutosyncConfigured ==
    [][ HookRuns =>
          /\ EnabledAsDocumented =>
               /\ op'["a1"] = "autoSync"
               /\ pc'["a1"] = "try_exists"
               /\ calls'["a1"] = calls["a1"] + 1
          /\ NotEnabled => UNCHANGED <<lockVars, passVars>>
      ]_vars

(***************************************************************************)
(* SpecConcurrentAdd: the processes a1 and a2 run `mnote add a ...` at the *)
(* same time; the calls of addNote on the file system (existsSync,         *)
(* writeFile) and on the index interleave (part_007 857-930).              *)
(***************************************************************************)
\* two contents of one derived title: "x" and "X\ny"
ConcContents == {<<"x">>, <<"X", "y">>}
NoAdd == [content |-> <<>>, n |-> 0]

InitConcurrentAdd ==
    /\ InitProcs
    /\ now = 0
    /\ alive = [p \in AllPids |-> p \in Pids]
    /\ pidOf = DistinctPids
    /\ lockFile = NoFile
    /\ dirs = {<<>>}
    /\ files = {}
    /\ notes = {}
    /\ notes_fts = {}
    /\ nextId = 1
    /\ indexError = FALSE
    /\ storeCalls = 0
    /\ dbFile = FALSE
    /\ config = EmptyConfig
    /\ conflicted = FALSE
    /\ ret = [op |-> "none", add |-> [a \in Actors |-> NoAdd]]

\* the filename the addNote of process a is at: slug.md, slug-1.md, ...
Candidate(a) == Filename(slugify(TitleOf(ret.add[a].content)), ret.add[a].n)

\* part_007:858-879  addNote is entered: getBookPath(book), the title, the slug
\* and the first filename
AddBegin(a) ==
    /\ pc[a] = "idle"
    /\ storeCalls < MaxStoreCalls
    /\ \E c \in ConcContents :
         ret' = [op |-> "addNote", add |-> [ret.add EXCEPT ![a] = [content |-> c, n |-> 0]]]
    /\ pc' = [pc EXCEPT ![a] = "add_exists"]
    /\ dirs' = mkdirp(Store, <<"a">>).dirs
    /\ storeCalls' = storeCalls + 1
    /\ UNCHANGED <<files, notes, notes_fts, nextId, indexError, dbFile, config,
                   conflicted, lockData, alive, pidOf, op, passVars>>

\* part_007:883-888  while (existsSync(filePath)): the next filename, or out of the loop
AddExists(a) ==
    /\ pc[a] = "add_exists"
    /\ IF FileAt(Store, <<"a">>, Candidate(a)) # {}
       THEN /\ ret' = [ret EXCEPT !.add[a].n = @ + 1]
            /\ pc' = pc
       ELSE /\ ret' = ret
            /\ pc' = [pc EXCEPT ![a] = "add_write"]
    /\ UNCHANGED <<dirs, files, notes, notes_fts, nextId, indexError, storeCalls, dbFile,
                   config, conflicted, lockData, alive, pidOf, op, passVars>>

\* part_007:923  await writeFile(filePath, finalContent)
AddWrite(a) ==
    /\ pc[a] = "add_write"
    /\ files' = writeFile(Store, <<"a">>, Candidate(a), ret.add[a].content).files
    /\ pc' = [pc EXCEPT ![a] = "add_index"]
    /\ UNCHANGED <<dirs, notes, notes_fts, nextId, indexError, storeCalls, ret, dbFile,
                   config, conflicted, lockData, alive, pidOf, op, passVars>>

\* part_007:924-929  indexNote(book, filename, finalContent, filePath) in its try block
AddIndex(a) ==
    /\ pc[a] = "add_index"
    /\ LET t == indexNote(Store, <<"a">>, Candidate(a), ret.add[a].content,
                          <<<<"a">>, Candidate(a)>>)
       IN /\ notes' = t.notes
          /\ notes_fts' = t.fts
          /\ nextId' = t.nextId
          /\ indexError' = t.err
          /\ dbFile' = t.db
    /\ pc' = [pc EXCEPT ![a] = "idle"]
    /\ UNCHANGED <<dirs, files, storeCalls, ret, config, conflicted, lockData, alive,
                   pidOf, op, passVars>>

NextConcurrentAdd ==
    \/ \E a \in Actors : AddBegin(a)
    \/ \E a \in Actors : AddExists(a)
    \/ \E a \in Actors : AddWrite(a)
    \/ \E a \in Actors : AddIndex(a)

SpecConcurrentAdd == InitConcurrentAdd /\ [][NextConcurrentAdd]_vars

\* the step is the writeFile of an addNote
Writes == \E a \in Actors : pc[a] = "add_write" /\ pc'[a] = "add_index"

\* C33: whatever the interleaving of the existence checks and the writes of two
\* concurrent addNote calls of one book and one derived title, every write makes a
\* new file and leaves the files that are there as they are: both notes end up on
\* disk under distinct filenames, each with its content.
C33_ConcurrentAddsKeepBoth ==
    [][ Writes =>
          /\ files \subseteq files'
          /\ Cardinality(files') = Cardinality(files) + 1
      ]_vars

(***************************************************************************)
(* SpecConflict: the passes the daemon and autoSync make on one root,      *)
(* performSync({ exitOnError: false }) one after the other (sync.ts        *)
(* 72-150, part_003 202-230), with the state a stopped rebase leaves in    *)
(* the working tree.                                                       *)
(***************************************************************************)
\* sync.ts:46, part_003:213  performSync({ exitOnError: false })
AutoPass(a) ==
    /\ pc[a] = "idle"
    /\ \A b \in Actors : pc[b] = "idle"
    /\ passes[a] < MaxPasses
    /\ performSync(a, FALSE)
    /\ UNCHANGED <<storeVars, lockData, alive, pidOf, op, exitCode>>

\* the store variables but the working tree
treeFrame == <<dirs, files, notes, notes_fts, nextId, indexError, storeCalls, ret, dbFile,
               config>>

\* sync.ts:103-104  git.status(): a stopped rebase lists its unmerged files
TreeStatus(a) ==
    /\ pc[a] = "ps_status"
    /\ \E o \in IF conflicted THEN {"dirty", "fail"} ELSE {"dirty", "clean", "fail"} :
         /\ Logged(a, "status", o)
         /\ IF o = "dirty" THEN passGoes(a, "ps_commit")
            ELSE IF o = "clean" THEN passGoes(a, "ps_remotes")
            ELSE passCaught(a)
    /\ UNCHANGED <<storeVars, lockData, pidOf, op, exitOnError, passes>>

\* sync.ts:120-130  git.pull('origin', branch, { '--rebase': 'true' }): a conflict
\* leaves the rebase stopped; no rebase starts while one is stopped
TreePull(a) ==
    /\ pc[a] = "ps_pull"
    /\ \E o \in IF conflicted THEN {"fail"} ELSE {"ok", "conflict", "fail"} :
         /\ Logged(a, "pull", o)
         /\ conflicted' = (conflicted \/ o = "conflict")
         /\ IF PullFails(o) THEN passCaught(a) ELSE passGoes(a, "ps_push")
    /\ UNCHANGED <<treeFrame, lockData, pidOf, op, exitOnError, passes>>

\* the user resolves the conflict in the notes directory (part_003:89-92)
Resolve ==
    /\ conflicted
    /\ \A a \in Actors : pc[a] = "idle"
    /\ conflicted' = FALSE
    /\ UNCHANGED <<treeFrame, lockVars, passVars>>

NextConflict ==
    \/ \E a \in Actors : AutoPass(a)
    \/ \E a \in Actors : StepGit(a)
    \/ \E a \in Actors : StepRepo(a)
    \/ \E a \in Actors : TreeStatus(a)
    \/ \E a \in Actors : StepCommit(a)
    \/ \E a \in Actors : StepRemotes(a)
    \/ \E a \in Actors : TreePull(a)
    \/ \E a \in Actors : StepPush(a)
    \/ Resolve

SpecConflict == InitPass /\ [][NextConflict]_vars

\* the step is the git call s of a pass
GitCall(a, s) == Len(log'[a]) = Len(log[a]) + 1 /\ log'[a][Len(log'[a])].step = s

\* C34: once a pass has ended with a pull conflict, no later pass stages and commits
\* (git add, git commit) or pushes the working tree until the conflict has been
\* resolved outside the tool.
C34_ConflictKept ==
    [][ \A a \in Actors :
          conflicted => (~GitCall(a, "commit") /\ ~GitCall(a, "push"))
      ]_vars

(***************************************************************************)
(* SpecMoveSteps: moveNote step by step (part_007 1046-1056): getNote,     *)
(* addNote to the target, deleteNote from the source, in a store of notes  *)
(* added to the books "a" and "b"; the add or the delete may fail with an  *)
(* error of the file system.                                               *)
(***************************************************************************)
StepBooks == {<<"a">>, <<"b">>}
NoNote == [dir |-> <<>>, fname |-> Filename("none", 0), content |-> <<>>]

\* a later step of the call in progress
Continue(t, r) ==
    /\ dirs' = t.dirs
    /\ files' = t.files
    /\ notes' = t.notes
    /\ notes_fts' = t.fts
    /\ nextId' = t.nextId
    /\ indexError' = t.err
    /\ dbFile' = t.db
    /\ ret' = r
    /\ UNCHANGED <<storeCalls, config, conflicted, lockVars, passVars>>

\* moveNote has been entered and has not ended
Moving == ret.op = "moveNote" /\ ret.at \in {"got", "added"}

StepsAdd == ~Moving /\ BooksAddIn(StepBooks)

\* part_007:1047  const note = await getNote(book, index)
MoveGet ==
    /\ ~Moving
    /\ \E book \in StepBooks, index \in 1..MaxIds, target \in StepBooks \cup {<<"..">>} :
         LET g == getNote(Store, book, index) IN
         Call(g.st, [op |-> "moveNote", book |-> book, index |-> index, target |-> target,
                     at |-> IF g.out.kind = "returns" THEN "got" ELSE "failed",
                     note |-> IF g.out.kind = "returns" THEN g.out.value ELSE NoNote])

\* part_007:1054  await addNote(targetBook, note.content)
moveNoteAdd_Nothing(s, target, c) == s
moveNoteAdd(s, target, c) == addNote(s, target, c)

\* the add step: the target is refused, writeFile fails, or the copy is made
MoveAdded ==
    /\ ret.op = "moveNote" /\ ret.at = "got"
    /\ \E fault \in BOOLEAN :
         IF ~Accepts(ret.target)
         THEN Continue(Store, [ret EXCEPT !.at = "add_failed"])
         ELSE IF fault
         THEN Continue(getBookPath(Store, ret.target).st, [ret EXCEPT !.at = "add_failed"])
         ELSE Continue(moveNoteAdd(Store, ret.target, ret.note.content),
                       [ret EXCEPT !.at = "added"])

\* part_007:1055  await deleteNote(book, index): unlink fails, or the note is deleted
MoveDeleted ==
    /\ ret.op = "moveNote" /\ ret.at = "added"
    /\ \E fault \in BOOLEAN :
         IF fault
         THEN Continue(getBookPath(Store, ret.book).st, [ret EXCEPT !.at = "delete_failed"])
         ELSE Continue(deleteNote(Store, ret.book, ret.index), [ret EXCEPT !.at = "done"])

NextMoveSteps ==
    \/ StepsAdd
    \/ MoveGet
    \/ MoveAdded
    \/ MoveDeleted

SpecMoveSteps == InitStore /\ [][NextMoveSteps]_vars

\* a file of the directory of the book has the content, and the index has its record
Holds(x, book, c) == x.dir = Relative(book) /\ x.content = c
IndexedAs(x, c) == \E r \in notes : r.path = <<x.dir, x.fname>> /\ r.content = c

WedgeT0 == WaitT0 + PollMs

InitWedge ==
    /\ InitActors
    /\ now = WedgeT0
    /\ alive = [p \in AllPids |-> p \in Pids]
    /\ pidOf = DistinctPids
    /\ lockFile \in {Token("gone", DeadPid, WaitT0), Token("gone", 2, 0), EmptyFile("gone")}

\* lock.acquire({ wait, timeoutMs }) of a sync attempt
WedgeAcquire ==
    /\ pc["a1"] = "idle"
    /\ calls["a1"] < MaxCalls
    /\ releases["a1"] = calls["a1"]
    /\ \E w \in BOOLEAN, t \in {0, PollMs} :
         /\ now + t + PollMs <= WaitHorizon
         /\ acquire("a1", w, t)
    /\ UNCHANGED callerVars

NextWedge ==
    \/ WedgeAcquire
    \/ ApiRelease("a1")
    \/ LockStep("a1")
    \/ PollTick

SpecWedge == InitWedge /\ [][NextWedge]_vars

\* C36: whatever the lock file holds (a token, an empty file, content without a
\* numeric owner), an acquire made after the writer of the file has died or after
\* ten minutes have passed gets the lock.
C36_NeverWedged ==
    [][ Returns("a1") => result'["a1"] = "true" ]_vars

(***************************************************************************)
(* SpecInside: the store is called with books inside and outside the notes *)
(* root; the parent directory of the root exists and holds a markdown file *)
(* (part_007 779-791, 961-975, 1064-1087).                                 *)
(***************************************************************************)
\* "a", ".." and "../x"
InsideBooks == {<<"a">>, <<"..">>, <<"..", "x">>}

InitInside ==
    /\ InitProcs
    /\ now = 0
    /\ alive = [p \in AllPids |-> p \in Pids]
    /\ pidOf = DistinctPids
    /\ lockFile = NoFile
    /\ dirs = {<<>>, <<"..">>}
    /\ files = {[dir |-> <<"..">>, fname |-> Filename("x", 0), content |-> <<"x">>]}
    /\ notes = {}
    /\ notes_fts = {}
    /\ nextId = 1
    /\ indexError = FALSE
    /\ storeCalls = 0
    /\ ret = NoRet
    /\ dbFile = FALSE
    /\ config = EmptyConfig
    /\ conflicted = FALSE

InsideAdd == BooksAddIn(InsideBooks)
InsideUpdate == BooksUpdateIn(InsideBooks)
InsideDelete == BooksDeleteIn(InsideBooks, 1..MaxIds)

\* part_007:961-975  getNotes(book): what it read
InsideGetNotes ==
    \E book \in InsideBooks :
        Call(Store, [op |-> "getNotes", book |-> book, out |-> Returned(getNotes(Store, book))])

\* part_007:1064-1087  renameBook(oldName, newName)
InsideRename ==
    \E old \in InsideBooks, new \in InsideBooks :
        Call(renameBook(Store, old, new),
             [op |-> "renameBook", book |-> old, new |-> new,
              out |-> IF renameBookThrows(Store, old, new)
                      THEN Throws("rename") ELSE Returned("none")])

NextInside ==
    \/ InsideAdd
    \/ InsideUpdate
    \/ InsideDelete
    \/ InsideGetNotes
    \/ InsideRename

SpecInside == InitInside /\ [][NextInside]_vars

\* the directories and the files that are not below the root
Outside(d) == d # <<>> /\ d[1] = ".."
OutsideOf(D) == {d \in D : Outside(d)}
FilesOutside(F) == {x \in F : Outside(x.dir)}

\* the call of this step was given a book that resolves outside the root
GivenOutside ==
    /\ storeCalls' = storeCalls + 1
    /\ \/ ~Inside(ret'.book)
       \/ ret'.op = "renameBook" /\ ~Inside(ret'.new)

\* C37: a store operation given a book that resolves outside the notes root fails:
\* it creates, renames, writes and deletes nothing, inside or outside the root, and
\* it reads no file outside the root.
C37_StaysInside ==
    [][ GivenOutside =>
          /\ ret'.out.kind = "throws"
          /\ dirs' = dirs /\ files' = files
      ]_vars

(***************************************************************************)
(* SpecRows: indexNote, unindexNote, updateBookInDb and rebuildDB called   *)
(* in any order, with the arguments the store passes (the path is the path *)
(* of the file of that name in that book), on a root with two note files   *)
(* (part_007 720-771, 1096-1119, 1216-1243).                               *)
(***************************************************************************)
\* "a", "./a" and "b"
RowBooks == {<<"a">>, <<".", "a">>, <<"b">>}
RowFilenames == {Filename("x", 0), Filename("y", 0)}
RowContents == {<<"x">>, <<"X", "y">>}

InitRows ==
    /\ InitProcs
    /\ now = 0
    /\ alive = [p \in AllPids |-> p \in Pids]
    /\ pidOf = DistinctPids
    /\ lockFile = NoFile
    /\ dirs = {<<>>, <<"a">>, <<"b">>}
    /\ files = {[dir |-> <<"a">>, fname |-> Filename("x", 0), content |-> <<"x">>],
                [dir |-> <<"b">>, fname |-> Filename("x", 0), content |-> <<"X", "y">>]}
    /\ notes = {}
    /\ notes_fts = {}
    /\ nextId = 1
    /\ indexError = FALSE
    /\ storeCalls = 0
    /\ ret = NoRet
    /\ dbFile = FALSE
    /\ config = EmptyConfig
    /\ conflicted = FALSE

\* indexNote(book, filename, content, join(bookPath, filename)); an error of the
\* transaction is thrown to the caller
RowsIndex ==
    \E book \in RowBooks, f \in RowFilenames, c \in RowContents :
        Call([indexNote(Store, book, f, c, <<Relative(book), f>>) EXCEPT !.err = FALSE],
             [op |-> "indexNote"])

\* unindexNote(book, filename)
RowsUnindex ==
    \E book \in RowBooks, f \in RowFilenames :
        Call(unindexNote(Store, book, f), [op |-> "unindexNote"])

\* updateBookInDb(oldName, newName)
RowsUpdateBook ==
    \E old \in RowBooks, new \in RowBooks :
        Call([updateBookInDb(Store, old, new) EXCEPT !.err = FALSE],
             [op |-> "updateBookInDb"])

\* rebuildDB()
RowsRebuild == Call(rebuildDB(Store), [op |-> "rebuildDB"])

NextRows ==
    \/ RowsIndex
    \/ RowsUnindex
    \/ RowsUpdateBook
    \/ RowsRebuild

SpecRows == InitRows /\ [][NextRows]_vars

\* the row of notes_fts is the projection of the record
Projects(t, r) ==
    /\ t.rowid = r.id /\ t.book = r.book /\ t.filename = r.filename
    /\ t.path = r.path /\ t.content = r.content

LossBooks == {<<"a">>, <<"b">>}

\* after addNote('a', 'x') and addNote('b', 'X\ny')
InitLoss ==
    /\ InitProcs
    /\ now = 0
    /\ alive = [p \in AllPids |-> p \in Pids]
    /\ pidOf = DistinctPids
    /\ lockFile = NoFile
    /\ \E s \in {addNote(addNote([dirs |-> {<<>>}, files |-> {}, notes |-> {}, fts |-> {},
                                  nextId |-> 1, err |-> FALSE, db |-> FALSE],
                                 <<"a">>, <<"x">>),
                         <<"b">>, <<"X", "y">>)} :
         /\ dirs = s.dirs
         /\ files = s.files
         /\ notes = s.notes
         /\ notes_fts = s.fts
         /\ nextId = s.nextId
         /\ indexError = s.err
         /\ dbFile = s.db
    /\ storeCalls = 0
    /\ ret = NoRet
    /\ config = EmptyConfig
    /\ conflicted = FALSE

LossAdd ==
    \E book \in LossBooks, c \in Contents :
        Call(addNote(Store, book, c), [op |-> "addNote"])

LossDelete ==
    \E book \in LossBooks :
        /\ Len(getNotes(Store, book)) >= 1
        /\ Call(deleteNote(Store, book, 1), [op |-> "deleteNote"])

\* mnote database check
LossCheck == Call(getDB(Store), [op |-> "checkDB", out |-> checkDBReport(Store)])

\* <root>/mnote.db is deleted
LossRemove ==
    /\ dbFile
    /\ Call([Store EXCEPT !.notes = {}, !.fts = {}, !.nextId = 1, !.db = FALSE],
            [op |-> "unlink"])

\* mnote find <keyword> [-b book]
LossFind ==
    \E kw \in Keywords, book \in LossBooks \cup {<<>>} :
        LET g == findNotesHeal(Store, kw, book) IN
        Call(g.st, [op |-> "findNotes", kw |-> kw, book |-> book, out |-> g.out])

NextLoss ==
    \/ LossAdd
    \/ LossDelete
    \/ LossCheck
    \/ LossRemove
    \/ LossFind

SpecLoss == InitLoss /\ [][NextLoss]_vars

\* the notes on disk whose content has the keyword, of the book when one is given
OnDiskMatching(F, kw, book) ==
    {[book |-> x.dir, filename |-> x.fname] :
        x \in {y \in F : /\ Fold(kw) \in ContentTokens(y.content)
                         /\ (book = <<>> \/ y.dir = Relative(book))}}

\* C39: after mnote.db has been deleted, whatever calls of addNote, deleteNote and
\* checkDB follow, findNotes returns every note on disk that matches the query (as
\* it does while the index has not been deleted).
C39_NotesNeverHidden ==
    [][ \A kw \in Keywords, book \in LossBooks \cup {<<>>} :
          (Called("findNotes") /\ ret'.kw = kw /\ ret'.book = book) =>
              OnDiskMatching(files, kw, book)
                 \subseteq {[book |-> Relative(r.book), filename |-> r.filename] : r \in ret'.out}
      ]_vars

(***************************************************************************)
(* SpecReindex: notes are added and deleted, and `mnote index` regenerates *)
(* README.md and the INDEX.md of every book (src/index.ts 361-456,         *)
(* 501-518; commands/index_cmd.ts).                                        *)
(***************************************************************************)
ReindexBooks == {<<"a">>, <<"a", "b">>}

\* the files README.md and INDEX.md: names without a date and without a counter
ReadmeMd == [slug |-> "README", n |-> 0]
IndexMd == [slug |-> "INDEX", n |-> 0]

\* src/index.ts:361-387  updateFileWithContent: the generated part between the
\* markers is written (to a new file, or in place of the former generated part)
updateFileWithContent(s, d, f, generated) ==
    writeFile(s, d, f, <<"<!-- MNOTE_INDEX_START -->">> \o generated \o <<"<!-- MNOTE_INDEX_END -->">>)

\* src/index.ts:393-401  generateRootReadme(rootPath): the tree of the books
generateRootReadme(s) ==
    updateFileWithContent(s, <<>>, ReadmeMd,
                          IF s.dirs \ {<<>>} = {} THEN <<>> ELSE <<"- [book](book/INDEX.md)">>)

\* src/index.ts:407-456  generateBookIndex(bookAbsolutePath): the directories and the
\* entries ending in '.md' of the book, INDEX.md itself left out of the list
generateBookIndex(s, d) ==
    LET subs == {e \in s.dirs : Len(e) = Len(d) + 1 /\ IsPrefixOf(d, e)}
        mds == {x \in s.files : x.dir = d /\ x.fname # IndexMd}
    IN updateFileWithContent(s, d, IndexMd,
          <<"## Contents">>
          \o (IF subs # {} THEN <<"### Sub-books">> ELSE <<>>)
          \o (IF mds # {} THEN <<"### Notes">> ELSE <<>>)
          \o (IF subs = {} /\ mds = {} THEN <<"_Empty_">> ELSE <<>>))

\* src/index.ts:505-518  traverseAndIndex: every directory below the root, parents
\* before their children
RECURSIVE traverseAndIndex(_, _)
traverseAndIndex(s, books) ==
    IF books = <<>> THEN s
    ELSE traverseAndIndex(generateBookIndex(s, Head(books)), Tail(books))

\* src/index.ts:501-504  reindexAll(rootPath)
reindexAll(s) == traverseAndIndex(generateRootReadme(s), SortBooks(s.dirs \ {<<>>}))

ReindexAdd ==
    \E book \in ReindexBooks, c \in Contents :
        Call(addNote(Store, book, c), [op |-> "addNote"])

ReindexDelete ==
    \E book \in ReindexBooks :
        /\ Len(getNotes(Store, book)) >= 1
        /\ Call(deleteNote(Store, book, 1), [op |-> "deleteNote"])

\* mnote index
ReindexAll == Call(reindexAll(Store), [op |-> "reindexAll"])

NextReindex ==
    \/ ReindexAdd
    \/ ReindexDelete
    \/ ReindexAll

SpecReindex == InitStore /\ [][NextReindex]_vars

\* what the store reports: the notes of every book, in order, and the status of checkDB
Listing(s) == [book \in ReindexBooks |-> getNotes(s, book)]
Reported(s) == [notes |-> Listing(s), status |-> checkDBReport(s).status]

\* C40: reindexAll changes nothing of what the store reports: for every book
\* getNotes returns the same list in the same order, and checkDB gives the same status.
C40_ReindexKeepsReports ==
    [][ Called("reindexAll") => Reported(Store)' = Reported(Store) ]_vars

====
